---- MODULE Spec2Model ----
(***************************************************************************)
(* State-machine model of the VRCamOSC key-input / OSC bridge:             *)
(*   keyboard_handler.py  KeyboardHandler  (bindings, press tracking,      *)
(*                                          dispatch, toggles, config)     *)
(*   pin_system.py        OSCController, OSCReceiver, VRChatCameraPinSystem*)
(*   camera_data_utils.py CameraDataManager, CameraParamsValidator         *)
(*                                                                         *)
(* Units.  Times (time.time(), long_press_threshold) are counted in units  *)
(* of 0.4 s, camera parameters in tenths of their unit, so that the        *)
(* program's float constants (0.8 s, 1.4 f, 1.5 m ...) are integers here.  *)
(* Python dicts whose iteration order the program depends on (key_bindings,*)
(* special_key_bindings, the JSON objects of the config file) are ordered  *)
(* dicts: sequences of <<key, value>> pairs in insertion order.  Dicts     *)
(* that are only indexed (vk_to_pin, vk_to_special, pin_states,            *)
(* key_press_times, current_params) are functions.                         *)
(***************************************************************************)
EXTENDS Integers, Sequences, FiniteSets, TLC

\* ------------------------------------------------------------------ bounds
\* The clock stops advancing at MaxTime (units of 0.4 s).
MaxTime == 3

\* ------------------------------------------------------- program constants
\* _get_vk_code's "no key code" result (Python None); never a valid VK code.
None == -1
\* self.long_press_threshold = 0.8 (seconds), in units of 0.4 s.
DefaultThreshold == 2

Slots == 1..9
valid_actions == <<"copy_current", "move_clipboard", "toggle_flight", "toggle_lookatme">>
ValidActionSet == {valid_actions[i] : i \in 1..Len(valid_actions)}

\* ------------------------------------------------------------ Python dicts
\* Ordered dict (insertion order kept): a sequence of <<key, value>> pairs.
DictKeys(d) == {d[i][1] : i \in 1..Len(d)}
DictHas(d, k) == k \in DictKeys(d)
DictGet(d, k) == d[CHOOSE i \in 1..Len(d) : d[i][1] = k][2]
\* d[k] = v : an existing key keeps its position, a new key goes last.
DictSet(d, k, v) ==
    IF DictHas(d, k)
    THEN [i \in 1..Len(d) |-> IF d[i][1] = k THEN <<k, v>> ELSE d[i]]
    ELSE Append(d, <<k, v>>)
\* del d[k]
DictDel(d, k) == SelectSeq(d, LAMBDA p : p[1] # k)
\* Plain dict used only by index: a function.
FnSet(f, k, v) == [x \in (DOMAIN f) \cup {k} |-> IF x = k THEN v ELSE f[x]]
FnDel(f, k) == [x \in (DOMAIN f) \ {k} |-> f[x]]
EmptyFn == [x \in {} |-> 0]

\* ---------------------------------------------------------- str() / int()
Digits == <<"0", "1", "2", "3", "4", "5", "6", "7", "8", "9">>
\* str(n) of a non-negative int: its decimal digits, as a sequence of characters.
RECURSIVE str(_)
str(n) == IF n < 10 THEN <<Digits[n + 1]>> ELSE str(n \div 10) \o <<Digits[(n % 10) + 1]>>
\* int(s) succeeds on an optional sign followed by at least one digit.
IsIntString(s) ==
    LET body == IF Len(s) > 0 /\ s[1] \in {"-", "+"} THEN Tail(s) ELSE s
    IN  Len(body) > 0 /\ \A i \in 1..Len(body) : body[i] \in {Digits[d] : d \in 1..10}
RECURSIVE DigitsValue(_)
DigitsValue(s) ==
    IF Len(s) = 0 THEN 0
    ELSE 10 * DigitsValue(SubSeq(s, 1, Len(s) - 1))
         + ((CHOOSE i \in 1..10 : Digits[i] = s[Len(s)]) - 1)
int(s) ==
    IF s[1] = "-" THEN 0 - DigitsValue(Tail(s))
    ELSE IF s[1] = "+" THEN DigitsValue(Tail(s))
    ELSE DigitsValue(s)

\* ------------------------------------------------------------------- state
VARIABLES
    key_bindings,           \* ordered dict  pin -> vk
    vk_to_pin,              \* dict          vk  -> pin
    special_key_bindings,   \* ordered dict  action -> vk
    vk_to_special,          \* dict          vk  -> action
    long_press_threshold,
    is_monitoring,
    listener,               \* "None" or "Listener"
    pressed_keys,           \* set of vk
    key_press_times,        \* dict vk -> time
    flight_mode_enabled,
    lookatme_enabled,
    config_file,            \* <<>> when the file is absent, else <<config_data>>
    client,                 \* OSCController.client is set (python-osc imported)
    current_pose,           \* OSCReceiver.current_pose: <<>> (None) or 6 values
    current_params,         \* OSCReceiver.current_params
    pin_states,             \* CameraDataManager.pin_states: dict pin -> state
    clipboard,              \* the system clipboard: <<>> or <<text>>
    now,                    \* time.time()
    callback,               \* the listener thread's position inside _on_release
    reset,                  \* the GUI thread's position inside setup_default_bindings
    stoppedHeld,            \* observer: keys that were tracked as pressed when a
                            \* stop_monitoring ran, with no press or release since
    lastOp,                 \* the operation that produced this state
    calls,                  \* pin-system calls made by that operation, in order
    sent                    \* OSC messages that operation transmitted, in order

bindVars == <<key_bindings, vk_to_pin, special_key_bindings, vk_to_special>>
pressVars == <<pressed_keys, key_press_times>>
monVars == <<is_monitoring, listener>>
flagVars == <<flight_mode_enabled, lookatme_enabled>>
cacheVars == <<current_pose, current_params>>
threadVars == <<callback, reset>>
vars == <<key_bindings, vk_to_pin, special_key_bindings, vk_to_special,
          long_press_threshold, is_monitoring, listener, pressed_keys,
          key_press_times, flight_mode_enabled, lookatme_enabled, config_file,
          client, current_pose, current_params, pin_states, clipboard, now,
          callback, reset, stoppedHeld, lastOp, calls, sent>>

\* What lastOp records: the operation, its arguments, its return value
\* ("True", "False", or "None" for a method without a return value), whether
\* it changed the binding table, and whether its key was in stoppedHeld.
Op(name, pin, action, vk, ret) ==
    [op |-> name, pin |-> pin, action |-> action, vk |-> vk, ret |-> ret,
     changed |-> (bindVars' # bindVars), stale |-> (vk \in stoppedHeld)]

\* ----------------------------------------------------------- key objects
\* A pynput key object as _get_vk_code sees it: it has a vk attribute or not,
\* and the attribute may be None.
KeyObj(vk) == [has_vk |-> TRUE, vk |-> vk]
KeyWithoutVk == [has_vk |-> FALSE, vk |-> None]
KeyVkNone == [has_vk |-> TRUE, vk |-> None]

get_vk_code(key_obj) ==
    IF key_obj.has_vk /\ key_obj.vk # None THEN key_obj.vk ELSE None

\* ------------------------------------------------------------------ config
\* The dict save_config writes.
ConfigData(kb, skb, thr, flight, lookatme) ==
    [key_bindings_vk |-> [i \in 1..Len(kb) |-> <<str(kb[i][1]), kb[i][2]>>],
     special_key_bindings_vk |-> skb,
     long_press_threshold |-> thr,
     flight_mode_enabled |-> flight,
     lookatme_enabled |-> lookatme,
     version |-> "1.0"]

\* save_config as the last statement of an operation: the file holds the
\* operation's resulting fields.
save_config ==
    config_file' = <<ConfigData(key_bindings', special_key_bindings',
                                long_press_threshold', flight_mode_enabled',
                                lookatme_enabled')>>

\* The table setup_default_bindings builds.
DefaultKeyBindings == [pin \in 1..9 |-> <<pin, 96 + pin>>]
DefaultSpecialKeyBindings ==
    << <<"copy_current", 110>>, <<"move_clipboard", 96>>,
       <<"toggle_flight", 111>>, <<"toggle_lookatme", 106>> >>
\* The reverse map built by assigning rev[value] = key in iteration order
\* (a later pair with the same value overwrites an earlier one).
RECURSIVE Reverse(_)
Reverse(d) ==
    IF Len(d) = 0 THEN EmptyFn
    ELSE FnSet(Reverse(SubSeq(d, 1, Len(d) - 1)), d[Len(d)][2], d[Len(d)][1])

\* Mutant: the reverse slot map is filled without being emptied first.
setup_default_bindings_keeps_reverse ==
    /\ key_bindings' = DefaultKeyBindings
    /\ vk_to_pin' = [vk \in (DOMAIN vk_to_pin) \cup (DOMAIN Reverse(DefaultKeyBindings)) |->
                        IF vk \in DOMAIN Reverse(DefaultKeyBindings)
                        THEN Reverse(DefaultKeyBindings)[vk] ELSE vk_to_pin[vk]]
    /\ special_key_bindings' = DefaultSpecialKeyBindings
    /\ vk_to_special' = Reverse(DefaultSpecialKeyBindings)
    /\ save_config

setup_default_bindings ==
    /\ key_bindings' = DefaultKeyBindings
    /\ vk_to_pin' = Reverse(DefaultKeyBindings)
    /\ special_key_bindings' = DefaultSpecialKeyBindings
    /\ vk_to_special' = Reverse(DefaultSpecialKeyBindings)
    /\ save_config

\* ---------------------------------------------------------------- bindings
\* set_key_binding's conflict check: the key already belongs to a named action.
PinKeyConflict(vk_code) == vk_code \in DOMAIN vk_to_special
\* set_special_key_binding's conflict check: the key already belongs to a slot.
SpecialKeyConflict(vk_code) == vk_code \in DOMAIN vk_to_pin

\* vk_to_pin after set_key_binding's "remove from the existing binding" step.
PinReverseWithoutOld(pin_number) ==
    IF DictHas(key_bindings, pin_number)
    THEN LET old_vk == DictGet(key_bindings, pin_number)
         IN  IF old_vk \in DOMAIN vk_to_pin THEN FnDel(vk_to_pin, old_vk) ELSE vk_to_pin
    ELSE vk_to_pin
SpecialReverseWithoutOld(action) ==
    IF DictHas(special_key_bindings, action)
    THEN LET old_vk == DictGet(special_key_bindings, action)
         IN  IF old_vk \in DOMAIN vk_to_special THEN FnDel(vk_to_special, old_vk)
             ELSE vk_to_special
    ELSE vk_to_special

\* Everything but the binding table, the config file and lastOp is untouched
\* by a binding operation.
BindingFrame ==
    /\ UNCHANGED <<long_press_threshold, monVars, pressVars, flagVars, client,
                   cacheVars, pin_states, clipboard, now, threadVars, stoppedHeld>>
    /\ calls' = <<>>
    /\ sent' = <<>>

\* Mutant: the slot number is not range checked.
set_key_binding_any_slot(pin_number, key_obj) ==
    LET vk_code == get_vk_code(key_obj) IN
    /\ BindingFrame
    /\ IF vk_code = None \/ PinKeyConflict(vk_code)
       THEN /\ UNCHANGED <<bindVars, config_file>>
            /\ lastOp' = Op("set_key_binding", pin_number, "", vk_code, "False")
       ELSE /\ key_bindings' = DictSet(key_bindings, pin_number, vk_code)
            /\ vk_to_pin' = FnSet(PinReverseWithoutOld(pin_number), vk_code, pin_number)
            /\ UNCHANGED <<special_key_bindings, vk_to_special>>
            /\ save_config
            /\ lastOp' = Op("set_key_binding", pin_number, "", vk_code, "True")

set_key_binding(pin_number, key_obj) ==
    LET vk_code == get_vk_code(key_obj) IN
    /\ BindingFrame
    /\ IF ~(1 <= pin_number /\ pin_number <= 9) \/ vk_code = None
          \/ PinKeyConflict(vk_code)
       THEN /\ UNCHANGED <<bindVars, config_file>>
            /\ lastOp' = Op("set_key_binding", pin_number, "", vk_code, "False")
       ELSE /\ key_bindings' = DictSet(key_bindings, pin_number, vk_code)
            /\ vk_to_pin' = FnSet(PinReverseWithoutOld(pin_number), vk_code, pin_number)
            /\ UNCHANGED <<special_key_bindings, vk_to_special>>
            /\ save_config
            /\ lastOp' = Op("set_key_binding", pin_number, "", vk_code, "True")

set_special_key_binding(action, key_obj) ==
    LET vk_code == get_vk_code(key_obj) IN
    /\ BindingFrame
    /\ IF action \notin ValidActionSet \/ vk_code = None
          \/ SpecialKeyConflict(vk_code)
       THEN /\ UNCHANGED <<bindVars, config_file>>
            /\ lastOp' = Op("set_special_key_binding", 0, action, vk_code, "False")
       ELSE /\ special_key_bindings' = DictSet(special_key_bindings, action, vk_code)
            /\ vk_to_special' = FnSet(SpecialReverseWithoutOld(action), vk_code, action)
            /\ UNCHANGED <<key_bindings, vk_to_pin>>
            /\ save_config
            /\ lastOp' = Op("set_special_key_binding", 0, action, vk_code, "True")

\* Mutant: the reverse entry is removed but the slot stays in key_bindings.
remove_key_binding_keeps_forward(pin_number) ==
    /\ BindingFrame
    /\ IF DictHas(key_bindings, pin_number)
       THEN /\ vk_to_pin' = PinReverseWithoutOld(pin_number)
            /\ UNCHANGED <<key_bindings, special_key_bindings, vk_to_special>>
            /\ save_config
            /\ lastOp' = Op("remove_key_binding", pin_number, "", None, "True")
       ELSE /\ UNCHANGED <<bindVars, config_file>>
            /\ lastOp' = Op("remove_key_binding", pin_number, "", None, "False")

remove_key_binding(pin_number) ==
    /\ BindingFrame
    /\ IF DictHas(key_bindings, pin_number)
       THEN /\ vk_to_pin' = PinReverseWithoutOld(pin_number)
            /\ key_bindings' = DictDel(key_bindings, pin_number)
            /\ UNCHANGED <<special_key_bindings, vk_to_special>>
            /\ save_config
            /\ lastOp' = Op("remove_key_binding", pin_number, "", None, "True")
       ELSE /\ UNCHANGED <<bindVars, config_file>>
            /\ lastOp' = Op("remove_key_binding", pin_number, "", None, "False")

remove_special_key_binding(action) ==
    /\ BindingFrame
    /\ IF DictHas(special_key_bindings, action)
       THEN /\ vk_to_special' = SpecialReverseWithoutOld(action)
            /\ special_key_bindings' = DictDel(special_key_bindings, action)
            /\ UNCHANGED <<key_bindings, vk_to_pin>>
            /\ save_config
            /\ lastOp' = Op("remove_special_key_binding", 0, action, None, "True")
       ELSE /\ UNCHANGED <<bindVars, config_file>>
            /\ lastOp' = Op("remove_special_key_binding", 0, action, None, "False")

\* The settings window's "restore defaults": setup_default_bindings called
\* on the running handler.
ResetToDefaults ==
    /\ BindingFrame
    /\ setup_default_bindings
    /\ lastOp' = Op("setup_default_bindings", 0, "", None, "None")

\* The settings window's threshold slider: a plain attribute assignment.
SetLongPressThreshold(value) ==
    /\ long_press_threshold' = value
    /\ UNCHANGED bindVars
    /\ UNCHANGED <<monVars, pressVars, flagVars, config_file, client,
                   cacheVars, pin_states, clipboard, now, threadVars, stoppedHeld>>
    /\ calls' = <<>>
    /\ sent' = <<>>
    /\ lastOp' = Op("set_long_press_threshold", 0, "", None, "None")

\* ------------------------------------------------------------- load_config
\* The two loops of load_config over the items of a JSON object.
RECURSIVE LoadPinItems(_)
LoadPinItems(items) ==
    IF Len(items) = 0 THEN [kb |-> <<>>, rev |-> EmptyFn]
    ELSE LET before == LoadPinItems(SubSeq(items, 1, Len(items) - 1))
             pin_str == items[Len(items)][1]
             vk == items[Len(items)][2]
         IN  IF IsIntString(pin_str) /\ 1 <= int(pin_str) /\ int(pin_str) <= 9
             THEN [kb |-> DictSet(before.kb, int(pin_str), vk),
                   rev |-> FnSet(before.rev, vk, int(pin_str))]
             ELSE before
RECURSIVE LoadSpecialItems(_)
LoadSpecialItems(items) ==
    IF Len(items) = 0 THEN [kb |-> <<>>, rev |-> EmptyFn]
    ELSE LET before == LoadSpecialItems(SubSeq(items, 1, Len(items) - 1))
             action == items[Len(items)][1]
             vk == items[Len(items)][2]
         IN  [kb |-> DictSet(before.kb, action, vk),
              rev |-> FnSet(before.rev, vk, action)]

\* The handler's configuration fields as they are now, and as __init__ sets
\* them before it calls load_config.
CurrentFields ==
    [key_bindings |-> key_bindings, vk_to_pin |-> vk_to_pin,
     special_key_bindings |-> special_key_bindings, vk_to_special |-> vk_to_special,
     long_press_threshold |-> long_press_threshold,
     flight_mode_enabled |-> flight_mode_enabled, lookatme_enabled |-> lookatme_enabled]
ConstructedFields ==
    [key_bindings |-> <<>>, vk_to_pin |-> EmptyFn,
     special_key_bindings |-> <<>>, vk_to_special |-> EmptyFn,
     long_press_threshold |-> DefaultThreshold,
     flight_mode_enabled |-> FALSE, lookatme_enabled |-> FALSE]

\* A configuration object may name, in "ill_typed", entries whose JSON value is
\* not of the type load_config expects: a threshold float() raises ValueError
\* on, a table that is a list and has no .items().  A file json.load fails
\* on is [corrupt |-> TRUE].
IllTyped(data, key) ==
    /\ key \in DOMAIN data
    /\ "ill_typed" \in DOMAIN data
    /\ key \in data.ill_typed

\* The handler's fields when load_config, started on the fields cur, has read
\* config_data and reached its final "defaults when a table is empty" check,
\* or has been left by an exception (raised): the statements before the
\* raising one have taken effect, a table being cleared before its items are
\* read.
LoadedFieldsFrom(data, cur) ==
    LET thr_raises == IllTyped(data, "long_press_threshold")
        pins_raises == ~thr_raises /\ IllTyped(data, "key_bindings_vk")
        specials_raises == /\ ~thr_raises /\ ~pins_raises
                           /\ IllTyped(data, "special_key_bindings_vk")
        raised == thr_raises \/ pins_raises \/ specials_raises
        pins == IF thr_raises \/ "key_bindings_vk" \notin DOMAIN data
                THEN [kb |-> cur.key_bindings, rev |-> cur.vk_to_pin]
                ELSE IF pins_raises THEN [kb |-> <<>>, rev |-> EmptyFn]
                ELSE LoadPinItems(data.key_bindings_vk)
        specials == IF \/ thr_raises \/ pins_raises
                       \/ "special_key_bindings_vk" \notin DOMAIN data
                    THEN [kb |-> cur.special_key_bindings, rev |-> cur.vk_to_special]
                    ELSE IF specials_raises THEN [kb |-> <<>>, rev |-> EmptyFn]
                    ELSE LoadSpecialItems(data.special_key_bindings_vk)
    IN  [key_bindings |-> pins.kb, vk_to_pin |-> pins.rev,
         special_key_bindings |-> specials.kb, vk_to_special |-> specials.rev,
         long_press_threshold |->
             IF "long_press_threshold" \in DOMAIN data /\ ~thr_raises
             THEN data.long_press_threshold ELSE cur.long_press_threshold,
         flight_mode_enabled |->
             IF "flight_mode_enabled" \in DOMAIN data /\ ~raised
             THEN data.flight_mode_enabled ELSE cur.flight_mode_enabled,
         lookatme_enabled |->
             IF "lookatme_enabled" \in DOMAIN data /\ ~raised
             THEN data.lookatme_enabled ELSE cur.lookatme_enabled,
         raised |-> raised]

\* config_data = <<>> is None: the file is read, and a missing or unreadable
\* file means defaults.
ReadsNoFile(config_data) ==
    /\ config_data = <<>>
    /\ \/ config_file = <<>>
       \/ config_file # <<>> /\ "corrupt" \in DOMAIN config_file[1]
DataRead(config_data) == IF config_data = <<>> THEN config_file[1] ELSE config_data[1]
\* load_config leaves by an exception.
LoadRaises(config_data, cur) ==
    /\ ~ReadsNoFile(config_data)
    /\ LoadedFieldsFrom(DataRead(config_data), cur).raised

\* The assignments of load_config(config_data) run on the fields cur.
LoadFrom(config_data, cur) ==
    IF ReadsNoFile(config_data)
    THEN /\ long_press_threshold' = cur.long_press_threshold
         /\ flight_mode_enabled' = cur.flight_mode_enabled
         /\ lookatme_enabled' = cur.lookatme_enabled
         /\ setup_default_bindings
    ELSE LET f == LoadedFieldsFrom(DataRead(config_data), cur)
         IN  /\ long_press_threshold' = f.long_press_threshold
             /\ flight_mode_enabled' = f.flight_mode_enabled
             /\ lookatme_enabled' = f.lookatme_enabled
             /\ IF ~f.raised /\ (Len(f.key_bindings) = 0 \/ Len(f.special_key_bindings) = 0)
                THEN setup_default_bindings
                ELSE /\ key_bindings' = f.key_bindings
                     /\ vk_to_pin' = f.vk_to_pin
                     /\ special_key_bindings' = f.special_key_bindings
                     /\ vk_to_special' = f.vk_to_special
                     /\ UNCHANGED config_file

\* load_config(config_data) on the living handler; lastOp.ret is "raise" when
\* an exception leaves it.
load_config(config_data) ==
    /\ UNCHANGED <<monVars, pressVars, client, cacheVars, pin_states, clipboard, now, threadVars,
                   stoppedHeld>>
    /\ calls' = <<>>
    /\ sent' = <<>>
    /\ LoadFrom(config_data, CurrentFields)
    /\ lastOp' = Op("load_config", 0,
                    IF config_data = <<>> THEN "config_file" ELSE "config_data",
                    None,
                    IF LoadRaises(config_data, CurrentFields) THEN "raise" ELSE "None")

\* KeyboardHandler(pin_system): __init__ sets every field, then calls
\* load_config().  When load_config raises, no handler comes into being
\* (create_pin_system goes on without one): lastOp.ret is "raise" and the
\* fields are those of the abandoned object.
construct ==
    /\ UNCHANGED <<client, cacheVars, pin_states, clipboard, now, threadVars>>
    /\ pressed_keys' = {}
    /\ key_press_times' = EmptyFn
    /\ is_monitoring' = FALSE
    /\ listener' = "None"
    /\ stoppedHeld' = {}
    /\ calls' = <<>>
    /\ sent' = <<>>
    /\ LoadFrom(<<>>, ConstructedFields)
    /\ lastOp' = Op("construct", 0, "config_file", None,
                    IF LoadRaises(<<>>, ConstructedFields) THEN "raise" ELSE "None")

\* keyboard_config.json is written, or removed, from outside the handler (an
\* editor, the settings window's own save, another version of the program).
FileEdited(file) ==
    /\ config_file' = file
    /\ UNCHANGED bindVars
    /\ UNCHANGED <<long_press_threshold, monVars, pressVars, flagVars, client, cacheVars,
                   pin_states, clipboard, now, threadVars, stoppedHeld>>
    /\ calls' = <<>>
    /\ sent' = <<>>
    /\ lastOp' = Op("file_edited", 0, "", None, "None")

\* ------------------------------------------------------------ camera data
\* CameraParamsValidator ranges and CameraParams defaults, in tenths.
ZOOM_RANGE == <<200, 1500>>
FOCAL_DISTANCE_RANGE == <<0, 100>>
APERTURE_RANGE == <<14, 320>>
EXPOSURE_RANGE == <<-100, 40>>
Clamp(range, v) ==
    LET upper == IF range[2] <= v THEN range[2] ELSE v
    IN  IF range[1] >= upper THEN range[1] ELSE upper
validate_camera_params(params) ==
    [zoom |-> Clamp(ZOOM_RANGE, params.zoom),
     focal_distance |-> Clamp(FOCAL_DISTANCE_RANGE, params.focal_distance),
     aperture |-> Clamp(APERTURE_RANGE, params.aperture),
     exposure |-> Clamp(EXPOSURE_RANGE, params.exposure)]

CameraState(position, rotation, camera_params) ==
    [position |-> position, rotation |-> rotation, camera_params |-> camera_params]
to_pose_list(state) == state.position \o state.rotation

\* dict.get(key, default) on current_params.
ParamGet(key, default) == IF key \in DOMAIN current_params THEN current_params[key] ELSE default

\* Mutant: a parameter that was never received makes the read fail (None).
get_current_state_needs_all_params ==
    IF Len(current_pose) < 6 THEN <<>>
    ELSE IF ~({"zoom", "focal_distance", "aperture", "exposure"} \subseteq DOMAIN current_params)
    THEN <<>>
    ELSE << CameraState(SubSeq(current_pose, 1, 3), SubSeq(current_pose, 4, 6),
                        [zoom |-> current_params["zoom"],
                         focal_distance |-> current_params["focal_distance"],
                         aperture |-> current_params["aperture"],
                         exposure |-> current_params["exposure"]]) >>

\* Mutant: without a pose the state is built at the origin.
get_current_state_without_pose ==
    LET pose == IF Len(current_pose) < 6 THEN <<0, 0, 0, 0, 0, 0>> ELSE current_pose
    IN  << CameraState(SubSeq(pose, 1, 3), SubSeq(pose, 4, 6),
                       [zoom |-> ParamGet("zoom", 450),
                        focal_distance |-> ParamGet("focal_distance", 15),
                        aperture |-> ParamGet("aperture", 150),
                        exposure |-> ParamGet("exposure", 0)]) >>

\* OSCReceiver.get_current_state: <<>> is None, <<state>> a CameraState.
get_current_state ==
    IF Len(current_pose) < 6 THEN <<>>
    ELSE << CameraState(SubSeq(current_pose, 1, 3), SubSeq(current_pose, 4, 6),
                        [zoom |-> ParamGet("zoom", 450),
                         focal_distance |-> ParamGet("focal_distance", 15),
                         aperture |-> ParamGet("aperture", 150),
                         exposure |-> ParamGet("exposure", 0)]) >>

\* ------------------------------------------------------------ OSCController
\* Within one operation the transport is described by `fails`: the set of
\* attempt numbers (1 = the operation's first client.send_message call) at
\* which send_message raises.  A net value threads the messages transmitted
\* so far and the number of attempts made.
NoNet == [sent |-> <<>>, n |-> 0]
SendMessage(net, fails, address, value) ==
    IF (net.n + 1) \in fails
    THEN [net |-> [sent |-> net.sent, n |-> net.n + 1], ok |-> FALSE]
    ELSE [net |-> [sent |-> Append(net.sent, <<address, value>>), n |-> net.n + 1],
          ok |-> TRUE]

\* Mutant: a pose of fewer than 6 values is transmitted like any other.
send_camera_pose_any_length(net, fails, pose_data) ==
    IF ~client THEN [net |-> net, ret |-> FALSE]
    ELSE LET r == SendMessage(net, fails, "/usercamera/Pose", pose_data)
         IN  [net |-> r.net, ret |-> r.ok]

\* send_camera_pose: the test of the client and of the length, the send, and
\* the except branch that turns a raising send_message into False.
send_camera_pose(net, fails, pose_data) ==
    IF ~client \/ Len(pose_data) < 6 THEN [net |-> net, ret |-> FALSE]
    ELSE LET r == SendMessage(net, fails, "/usercamera/Pose", pose_data)
         IN  [net |-> r.net, ret |-> r.ok]

send_camera_params(net, fails, zoom, focal_distance, aperture, exposure) ==
    IF ~client THEN [net |-> net, ret |-> FALSE]
    ELSE LET r1 == SendMessage(net, fails, "/usercamera/Zoom", zoom)
             r2 == SendMessage(r1.net, fails, "/usercamera/FocalDistance", focal_distance)
             r3 == SendMessage(r2.net, fails, "/usercamera/Aperture", aperture)
             r4 == SendMessage(r3.net, fails, "/usercamera/Exposure", exposure)
         IN  IF ~r1.ok THEN [net |-> r1.net, ret |-> FALSE]
             ELSE IF ~r2.ok THEN [net |-> r2.net, ret |-> FALSE]
             ELSE IF ~r3.ok THEN [net |-> r3.net, ret |-> FALSE]
             ELSE [net |-> r4.net, ret |-> r4.ok]

send_flying_mode(net, fails, enabled) ==
    IF ~client THEN [net |-> net, ret |-> FALSE]
    ELSE LET r == SendMessage(net, fails, "/usercamera/Flying", enabled)
         IN  [net |-> r.net, ret |-> r.ok]

send_lookatme(net, fails, enabled) ==
    IF ~client THEN [net |-> net, ret |-> FALSE]
    ELSE LET r == SendMessage(net, fails, "/usercamera/LookAtMe", enabled)
         IN  [net |-> r.net, ret |-> r.ok]

\* A call of one OSCController method by itself.  Only the transport is
\* touched; lastOp.ret is what the method returned (an exception leaving the
\* method would be neither "True" nor "False").
ControllerFrame ==
    /\ UNCHANGED bindVars
    /\ UNCHANGED <<long_press_threshold, monVars, pressVars, flagVars, config_file,
                   client, cacheVars, pin_states, clipboard, now, threadVars,
                   stoppedHeld>>
ReturnValue(b) == IF b THEN "True" ELSE "False"

CallSendCameraPose(pose_data, fails) ==
    LET r == send_camera_pose(NoNet, fails, pose_data) IN
    /\ ControllerFrame
    /\ sent' = r.net.sent
    /\ calls' = << <<"send_camera_pose", Len(pose_data), r.ret>> >>
    /\ lastOp' = Op("send_camera_pose", 0, "", None, ReturnValue(r.ret))

CallSendCameraParams(params, fails) ==
    LET r == send_camera_params(NoNet, fails, params[1], params[2], params[3], params[4]) IN
    /\ ControllerFrame
    /\ sent' = r.net.sent
    /\ calls' = << <<"send_camera_params", 0, r.ret>> >>
    /\ lastOp' = Op("send_camera_params", 0, "", None, ReturnValue(r.ret))

CallSendFlyingMode(enabled, fails) ==
    LET r == send_flying_mode(NoNet, fails, enabled) IN
    /\ ControllerFrame
    /\ sent' = r.net.sent
    /\ calls' = << <<"send_flying_mode", 0, r.ret>> >>
    /\ lastOp' = Op("send_flying_mode", 0, "", None, ReturnValue(r.ret))

CallSendLookAtMe(enabled, fails) ==
    LET r == send_lookatme(NoNet, fails, enabled) IN
    /\ ControllerFrame
    /\ sent' = r.net.sent
    /\ calls' = << <<"send_lookatme", 0, r.ret>> >>
    /\ lastOp' = Op("send_lookatme", 0, "", None, ReturnValue(r.ret))

\* ------------------------------------------------------------- OSCReceiver
\* Everything a telemetry handler leaves alone.
ReceiverFrame ==
    /\ UNCHANGED bindVars
    /\ UNCHANGED <<long_press_threshold, monVars, pressVars, config_file, client,
                   pin_states, clipboard, now, threadVars, stoppedHeld>>
    /\ calls' = <<>>
    /\ sent' = <<>>

\* _handle_pose(addr, *args)
handle_pose(args) ==
    /\ ReceiverFrame
    /\ UNCHANGED <<flagVars, current_params>>
    /\ current_pose' = IF Len(args) >= 6 THEN SubSeq(args, 1, 6) ELSE current_pose
    /\ lastOp' = Op("handle_pose", 0, "", None, "None")

\* An OSC argument is a number (in tenths), a boolean or a string (a sequence
\* of characters).  float() and bool() as Python applies them: float accepts a
\* number, a boolean and a string of digits and raises on any other string;
\* bool never raises and is True for every non-zero number and every
\* non-empty string.
Num(v) == <<"num", v>>
Bool(b) == <<"bool", b>>
Str(chars) == <<"str", chars>>
float(arg) ==
    IF arg[1] = "num" THEN [ok |-> TRUE, value |-> arg[2]]
    ELSE IF arg[1] = "bool" THEN [ok |-> TRUE, value |-> IF arg[2] THEN 10 ELSE 0]
    ELSE IF IsIntString(arg[2]) THEN [ok |-> TRUE, value |-> 10 * int(arg[2])]
    ELSE [ok |-> FALSE, value |-> 0]
bool(arg) ==
    IF arg[1] = "num" THEN arg[2] # 0
    ELSE IF arg[1] = "bool" THEN arg[2]
    ELSE Len(arg[2]) > 0

\* Mutant: the parameter dict is replaced by one holding the received
\* parameter only.
handle_param_replaces_dict(name, key, args) ==
    /\ ReceiverFrame
    /\ UNCHANGED <<flagVars, current_pose>>
    /\ current_params' = IF Len(args) > 0 /\ float(args[1]).ok
                         THEN FnSet(EmptyFn, key, float(args[1]).value)
                         ELSE current_params
    /\ lastOp' = Op(name, 0, "", None, "None")

\* _handle_zoom, _handle_focal_distance, _handle_aperture, _handle_exposure:
\* self.current_params[key] = float(args[0]) inside try/except.
handle_param(name, key, args) ==
    /\ ReceiverFrame
    /\ UNCHANGED <<flagVars, current_pose>>
    /\ current_params' = IF Len(args) > 0 /\ float(args[1]).ok
                         THEN FnSet(current_params, key, float(args[1]).value)
                         ELSE current_params
    /\ lastOp' = Op(name, 0, "", None, "None")

handle_zoom(args) == handle_param("handle_zoom", "zoom", args)
handle_focal_distance(args) == handle_param("handle_focal_distance", "focal_distance", args)
handle_aperture(args) == handle_param("handle_aperture", "aperture", args)
handle_exposure(args) == handle_param("handle_exposure", "exposure", args)

\* Mutant: only the receiver's own record of the flag is updated.
handle_flying_cache_only(args) ==
    /\ ReceiverFrame
    /\ UNCHANGED <<lookatme_enabled, current_pose, flight_mode_enabled>>
    /\ IF Len(args) > 0
       THEN current_params' = FnSet(current_params, "flying", bool(args[1]))
       ELSE UNCHANGED current_params
    /\ lastOp' = Op("handle_flying", 0, "", None, "None")

\* _handle_flying(addr, *args): the keyboard handler is attached, so its flag
\* is overwritten too.
handle_flying(args) ==
    /\ ReceiverFrame
    /\ UNCHANGED <<lookatme_enabled, current_pose>>
    /\ IF Len(args) > 0
       THEN /\ current_params' = FnSet(current_params, "flying", bool(args[1]))
            /\ flight_mode_enabled' = bool(args[1])
       ELSE UNCHANGED <<current_params, flight_mode_enabled>>
    /\ lastOp' = Op("handle_flying", 0, "", None, "None")

\* _handle_lookatme(addr, *args)
handle_lookatme(args) ==
    /\ ReceiverFrame
    /\ UNCHANGED <<flight_mode_enabled, current_pose>>
    /\ IF Len(args) > 0
       THEN /\ current_params' = FnSet(current_params, "lookatme", bool(args[1]))
            /\ lookatme_enabled' = bool(args[1])
       ELSE UNCHANGED <<current_params, lookatme_enabled>>
    /\ lastOp' = Op("handle_lookatme", 0, "", None, "None")

\* ------------------------------------------------- VRChatCameraPinSystem
\* The result of a dispatched action: the fields it may assign, whether it
\* called save_config, the messages it transmitted and the pin-system calls
\* it made (<<method, argument, return value>>).
NoEffect ==
    [pin_states |-> pin_states, clipboard |-> clipboard,
     flight_mode_enabled |-> flight_mode_enabled, lookatme_enabled |-> lookatme_enabled,
     saved |-> FALSE, sent |-> <<>>, calls |-> <<>>]

\* Mutant: the state is stored as received, without validation.
save_pin_state_unvalidated(pin_number, state) ==
    IF ~(1 <= pin_number /\ pin_number <= 9) THEN [pin_states |-> pin_states, ret |-> FALSE]
    ELSE [pin_states |-> FnSet(pin_states, pin_number, state), ret |-> TRUE]

\* CameraDataManager.save_pin_state
save_pin_state(pin_number, state) ==
    IF ~(1 <= pin_number /\ pin_number <= 9) THEN [pin_states |-> pin_states, ret |-> FALSE]
    ELSE [pin_states |->
              FnSet(pin_states, pin_number,
                    CameraState(state.position, state.rotation,
                                validate_camera_params(state.camera_params))),
          ret |-> TRUE]

\* VRChatCameraPinSystem.save_current_state_to_pin, called by _save_pin
save_pin(pin_number) ==
    LET current_state == get_current_state IN
    IF current_state = <<>>
    THEN [NoEffect EXCEPT !.calls = << <<"save_current_state_to_pin", pin_number, FALSE>> >>]
    ELSE LET r == save_pin_state(pin_number, current_state[1])
         IN  [NoEffect EXCEPT !.pin_states = r.pin_states,
                              !.calls = << <<"save_current_state_to_pin", pin_number, r.ret>> >>]

\* Mutant: the parameters are sent only after a pose that went out.
move_to_pin_stops_after_pose(pin_number, fails) ==
    IF pin_number \notin DOMAIN pin_states
    THEN [NoEffect EXCEPT !.calls = << <<"load_pin_to_camera", pin_number, FALSE>> >>]
    ELSE LET state == pin_states[pin_number]
             pose == send_camera_pose(NoNet, fails, to_pose_list(state))
             params == IF pose.ret
                       THEN send_camera_params(pose.net, fails, state.camera_params.zoom,
                                               state.camera_params.focal_distance,
                                               state.camera_params.aperture,
                                               state.camera_params.exposure)
                       ELSE [net |-> pose.net, ret |-> FALSE]
         IN  [NoEffect EXCEPT !.sent = params.net.sent,
                              !.calls = << <<"load_pin_to_camera", pin_number,
                                             pose.ret /\ params.ret>> >>]

\* VRChatCameraPinSystem.load_pin_to_camera, called by _move_to_pin
move_to_pin(pin_number, fails) ==
    IF pin_number \notin DOMAIN pin_states
    THEN [NoEffect EXCEPT !.calls = << <<"load_pin_to_camera", pin_number, FALSE>> >>]
    ELSE LET state == pin_states[pin_number]
             pose == send_camera_pose(NoNet, fails, to_pose_list(state))
             params == send_camera_params(pose.net, fails, state.camera_params.zoom,
                                          state.camera_params.focal_distance,
                                          state.camera_params.aperture,
                                          state.camera_params.exposure)
         IN  [NoEffect EXCEPT !.sent = params.net.sent,
                              !.calls = << <<"load_pin_to_camera", pin_number,
                                             pose.ret /\ params.ret>> >>]

\* An OSC blob argument (bytes) as a pose value: of the values an OSC message
\* can carry into the cache, the kind json.dumps raises TypeError on.
Blob == -999

\* create_clipboard_data / parse_clipboard_data: a clipboard text is
\* <<"json", value>> when it is a JSON document, anything else otherwise;
\* <<"">> is the empty string create_clipboard_data returns from its except
\* branch, taken when json.dumps raises on the state's dictionary form.
create_clipboard_data(state) ==
    IF \A i \in 1..3 : state.position[i] # Blob /\ state.rotation[i] # Blob
    THEN <<"json", [type |-> "vrchat_camera_state", position |-> state.position,
                    rotation |-> state.rotation, camera_params |-> state.camera_params]>>
    ELSE <<"">>
\* Position(**d) and Rotation(**d) on a JSON dictionary d, written as the
\* sequence of its values: a field the dictionary lacks takes the default 0.0
\* (a shorter sequence), a field the dataclass lacks raises TypeError (a
\* longer one).
Fill3(d) ==
    << IF Len(d) >= 1 THEN d[1] ELSE 0,
       IF Len(d) >= 2 THEN d[2] ELSE 0,
       IF Len(d) >= 3 THEN d[3] ELSE 0 >>
CameraParamFields == {"zoom", "focal_distance", "aperture", "exposure"}
FieldOr(d, key, default) == IF key \in DOMAIN d THEN d[key] ELSE default

\* CameraState.from_dict: <<>> stands for the TypeError it raises.
from_dict(data) ==
    IF \/ Len(data.position) > 3
       \/ Len(data.rotation) > 3
       \/ ~(DOMAIN data.camera_params \subseteq CameraParamFields)
    THEN <<>>
    ELSE << CameraState(Fill3(data.position), Fill3(data.rotation),
                        [zoom |-> FieldOr(data.camera_params, "zoom", 450),
                         focal_distance |-> FieldOr(data.camera_params, "focal_distance", 15),
                         aperture |-> FieldOr(data.camera_params, "aperture", 150),
                         exposure |-> FieldOr(data.camera_params, "exposure", 0)]) >>

\* Mutant: the "type" entry is not looked at.
parse_clipboard_data_any_type(text) ==
    IF text[1] # "json" THEN <<>>
    ELSE LET data == text[2]
         IN  IF {"position", "rotation", "camera_params"} \subseteq DOMAIN data
             THEN from_dict(data)
             ELSE <<>>

\* parse_clipboard_data: json.loads, the test of the dictionary, from_dict;
\* JSONDecodeError, TypeError and KeyError give None.
parse_clipboard_data(text) ==
    IF text[1] # "json" THEN <<>>
    ELSE LET data == text[2]
         IN  IF /\ {"type", "position", "rotation", "camera_params"} \subseteq DOMAIN data
                /\ data.type = "vrchat_camera_state"
             THEN from_dict(data)
             ELSE <<>>

\* _copy_current_state: copy_current_state_to_clipboard returns "" when
\* there is no state (or none that can be encoded), and pyperclip.copy runs
\* only for a non-empty text.  The call is logged with the truth value of the
\* text returned.
copy_current_state ==
    LET current_state == get_current_state
        clipboard_text == IF current_state = <<>> THEN <<"">>
                          ELSE create_clipboard_data(current_state[1])
    IN  IF clipboard_text[1] # ""
        THEN [NoEffect EXCEPT !.clipboard = <<clipboard_text>>,
                              !.calls = << <<"copy_current_state_to_clipboard", 0, TRUE>> >>]
        ELSE [NoEffect EXCEPT !.calls = << <<"copy_current_state_to_clipboard", 0, FALSE>> >>]

\* _move_from_clipboard; pyperclip.paste() of an empty clipboard is "".
move_from_clipboard(fails) ==
    LET clipboard_text == IF clipboard = <<>> THEN <<"">> ELSE clipboard[1]
        state == parse_clipboard_data(clipboard_text)
    IN  IF state = <<>>
        THEN [NoEffect EXCEPT !.calls = << <<"load_from_clipboard_data", 0, FALSE>> >>]
        ELSE LET pose == send_camera_pose(NoNet, fails, to_pose_list(state[1]))
                 params == send_camera_params(pose.net, fails, state[1].camera_params.zoom,
                                              state[1].camera_params.focal_distance,
                                              state[1].camera_params.aperture,
                                              state[1].camera_params.exposure)
             IN  [NoEffect EXCEPT !.sent = params.net.sent,
                                  !.calls = << <<"load_from_clipboard_data", 0,
                                                 pose.ret /\ params.ret>> >>]

\* Another application puts a text on the system clipboard, which
\* pyperclip.paste() reads later.
ClipboardCopied(text) ==
    /\ clipboard' = <<text>>
    /\ UNCHANGED bindVars
    /\ UNCHANGED <<long_press_threshold, monVars, pressVars, flagVars, config_file,
                   client, cacheVars, pin_states, now, threadVars, stoppedHeld>>
    /\ calls' = <<>>
    /\ sent' = <<>>
    /\ lastOp' = Op("clipboard_copied", 0, "", None, "None")

\* ------------------------------------------------------- CameraDataManager
\* What a call of the data manager leaves alone.
DataFrame ==
    /\ UNCHANGED bindVars
    /\ UNCHANGED <<long_press_threshold, monVars, pressVars, flagVars, config_file,
                   client, cacheVars, clipboard, now, threadVars, stoppedHeld>>
    /\ calls' = <<>>
    /\ sent' = <<>>

\* CameraDataManager.save_pin_state called with any slot number and state.
SavePinState(pin_number, state) ==
    LET r == save_pin_state(pin_number, state) IN
    /\ pin_states' = r.pin_states
    /\ DataFrame
    /\ lastOp' = Op("save_pin_state", pin_number, "", None, IF r.ret THEN "True" ELSE "False")

\* CameraDataManager.delete_pin_state
delete_pin_state(pin_number) ==
    /\ pin_states' = FnDel(pin_states, pin_number)
    /\ DataFrame
    /\ lastOp' = Op("delete_pin_state", pin_number, "",  None,
                    IF pin_number \in DOMAIN pin_states THEN "True" ELSE "False")

\* Mutant: every entry of the file is stored as it is read, under whatever
\* number its key gives.
RECURSIVE load_saved_poses_unchecked(_, _)
load_saved_poses_unchecked(pins, saved_poses) ==
    IF saved_poses = <<>> THEN pins
    ELSE LET pin_str == saved_poses[1][1]
             state_data == saved_poses[1][2]
         IN  IF ~IsIntString(pin_str)
             THEN load_saved_poses_unchecked(pins, Tail(saved_poses))
             ELSE IF "corrupt" \in DOMAIN state_data THEN pins
             ELSE LET state == from_dict(state_data)
                  IN  IF state = <<>> THEN load_saved_poses_unchecked(pins, Tail(saved_poses))
                      ELSE load_saved_poses_unchecked(FnSet(pins, int(pin_str), state[1]),
                                                      Tail(saved_poses))

\* The loop of load_data over the items of "saved_poses", in file order.  A
\* key int() rejects (ValueError) and a state from_dict rejects (TypeError)
\* are skipped, a number outside 1..9 is passed over, and a state that is no
\* JSON object (marked corrupt) raises AttributeError, which ends the load
\* with the pins read so far.
RECURSIVE load_saved_poses(_, _)
load_saved_poses(pins, saved_poses) ==
    IF saved_poses = <<>> THEN pins
    ELSE LET pin_str == saved_poses[1][1]
             state_data == saved_poses[1][2]
         IN  IF ~IsIntString(pin_str) \/ ~(1 <= int(pin_str) /\ int(pin_str) <= 9)
             THEN load_saved_poses(pins, Tail(saved_poses))
             ELSE IF "corrupt" \in DOMAIN state_data THEN pins
             ELSE LET state == from_dict(state_data)
                  IN  IF state = <<>> THEN load_saved_poses(pins, Tail(saved_poses))
                      ELSE load_saved_poses(
                               FnSet(pins, int(pin_str),
                                     CameraState(state[1].position, state[1].rotation,
                                                 validate_camera_params(state[1].camera_params))),
                               Tail(saved_poses))

\* CameraDataManager.load_data on what camera_pins.json holds: <<>> when the
\* file does not exist, <<[corrupt |-> TRUE]>> when it is no JSON object.
load_data(file) ==
    /\ pin_states' = IF file = <<>> \/ "corrupt" \in DOMAIN file[1] THEN pin_states
                     ELSE load_saved_poses(pin_states, file[1].saved_poses)
    /\ DataFrame
    /\ lastOp' = Op("load_data", 0, "", None, "None")

\* ------------------------------------------------------------------ toggles
\* Mutant: the flag stays flipped when there is no client.
toggle_flight_mode_no_revert(fails) ==
    IF client
    THEN LET r == send_flying_mode(NoNet, fails, ~flight_mode_enabled)
         IN  [NoEffect EXCEPT !.flight_mode_enabled = ~flight_mode_enabled,
                              !.sent = r.net.sent, !.saved = TRUE]
    ELSE [NoEffect EXCEPT !.flight_mode_enabled = ~flight_mode_enabled]

\* Mutant: the message is sent before the flag is flipped, so it carries the
\* old value.
toggle_flight_mode_sends_old(fails) ==
    IF client
    THEN LET r == send_flying_mode(NoNet, fails, flight_mode_enabled)
         IN  [NoEffect EXCEPT !.flight_mode_enabled = ~flight_mode_enabled,
                              !.sent = r.net.sent, !.saved = TRUE]
    ELSE [NoEffect EXCEPT !.flight_mode_enabled = ~(~flight_mode_enabled)]

\* _toggle_flight_mode: flip, then send and save when the client exists,
\* else flip back.  send_flying_mode's return value is not looked at.
toggle_flight_mode(fails) ==
    IF client
    THEN LET r == send_flying_mode(NoNet, fails, ~flight_mode_enabled)
         IN  [NoEffect EXCEPT !.flight_mode_enabled = ~flight_mode_enabled,
                              !.sent = r.net.sent, !.saved = TRUE]
    ELSE [NoEffect EXCEPT !.flight_mode_enabled = ~(~flight_mode_enabled)]

\* _toggle_lookatme
toggle_lookatme(fails) ==
    IF client
    THEN LET r == send_lookatme(NoNet, fails, ~lookatme_enabled)
         IN  [NoEffect EXCEPT !.lookatme_enabled = ~lookatme_enabled,
                              !.sent = r.net.sent, !.saved = TRUE]
    ELSE [NoEffect EXCEPT !.lookatme_enabled = ~(~lookatme_enabled)]

\* A collaborator the keyboard handler calls during a dispatch raises: call 0
\* of the operation is the handler's own call (pin_system.*, pyperclip.*,
\* osc_controller.send_*), calls 1.. are the client's send_message calls.
CollaboratorRaises(fails) == 0 \in fails
\* The except clause of _save_pin, _move_to_pin, _copy_current_state,
\* _move_from_clipboard: the exception is printed and nothing else happens.
\* In _toggle_flight_mode / _toggle_lookatme the flag flipped before the call
\* is flipped back.
Caught(method, argument) ==
    [NoEffect EXCEPT !.calls = << <<method, argument, FALSE, "raised">> >>]

\* _handle_special_action
handle_special_action(action, fails) ==
    IF CollaboratorRaises(fails) /\ action \in ValidActionSet
    THEN Caught(IF action = "copy_current" THEN "copy_current_state_to_clipboard"
                ELSE IF action = "move_clipboard" THEN "load_from_clipboard_data"
                ELSE IF action = "toggle_flight" THEN "send_flying_mode"
                ELSE "send_lookatme", 0)
    ELSE IF action = "copy_current" THEN copy_current_state
    ELSE IF action = "move_clipboard" THEN move_from_clipboard(fails)
    ELSE IF action = "toggle_flight" THEN toggle_flight_mode(fails)
    ELSE IF action = "toggle_lookatme" THEN toggle_lookatme(fails)
    ELSE NoEffect

\* Assign the fields an effect covers; save_config runs with the new flags.
Apply(effect) ==
    /\ pin_states' = effect.pin_states
    /\ clipboard' = effect.clipboard
    /\ flight_mode_enabled' = effect.flight_mode_enabled
    /\ lookatme_enabled' = effect.lookatme_enabled
    /\ sent' = effect.sent
    /\ calls' = effect.calls
    /\ IF effect.saved THEN save_config ELSE UNCHANGED config_file

\* The main window's flight / look-at-me buttons call the toggles directly.
ToggleFlightButton(fails) ==
    /\ UNCHANGED bindVars
    /\ UNCHANGED <<long_press_threshold, monVars, pressVars, client, cacheVars, now, threadVars,
                   stoppedHeld>>
    /\ Apply(toggle_flight_mode(fails))
    /\ lastOp' = Op("toggle_flight_mode", 0, "toggle_flight", None, "None")

ToggleLookAtMeButton(fails) ==
    /\ UNCHANGED bindVars
    /\ UNCHANGED <<long_press_threshold, monVars, pressVars, client, cacheVars, now, threadVars,
                   stoppedHeld>>
    /\ Apply(toggle_lookatme(fails))
    /\ lastOp' = Op("toggle_lookatme", 0, "toggle_lookatme", None, "None")

\* ------------------------------------------------------------ press tracker
\* Mutant: the duration is compared with the threshold the handler was
\* constructed with.
IsLongPress_initial_threshold(press_duration) == press_duration >= DefaultThreshold

\* The classification test of _handle_key_release.
IsLongPress(press_duration) == press_duration >= long_press_threshold

\* Mutant: a repeated press records its own time.
handle_key_press_rerecords(vk_code) ==
    /\ pressed_keys' = pressed_keys \cup {vk_code}
    /\ key_press_times' = FnSet(key_press_times, vk_code, now)

\* _handle_key_press
handle_key_press(vk_code) ==
    IF vk_code \notin pressed_keys
    THEN /\ pressed_keys' = pressed_keys \cup {vk_code}
         /\ key_press_times' = FnSet(key_press_times, vk_code, now)
    ELSE UNCHANGED pressVars

\* Mutant: the named-action lookup comes before the slot lookup.
Dispatch_named_first(vk_code, press_duration, fails) ==
    IF vk_code \in DOMAIN vk_to_special
    THEN handle_special_action(vk_to_special[vk_code], fails)
    ELSE IF vk_code \in DOMAIN vk_to_pin
    THEN IF IsLongPress(press_duration)
         THEN save_pin(vk_to_pin[vk_code])
         ELSE move_to_pin(vk_to_pin[vk_code], fails)
    ELSE NoEffect

\* Mutant: the keys of the default table (97..105) are taken for the keys of
\* slots 1..9 whatever the table holds at the release.
Dispatch_by_default_keys(vk_code, press_duration, fails) ==
    IF vk_code \in 97..105
    THEN IF IsLongPress(press_duration)
         THEN save_pin(vk_code - 96)
         ELSE move_to_pin(vk_code - 96, fails)
    ELSE IF vk_code \in DOMAIN vk_to_special
    THEN handle_special_action(vk_to_special[vk_code], fails)
    ELSE NoEffect

\* The action _handle_key_release dispatches for a tracked key.
Dispatch(vk_code, press_duration, fails) ==
    IF vk_code \in DOMAIN vk_to_pin
    THEN IF IsLongPress(press_duration)
         THEN IF CollaboratorRaises(fails)
              THEN Caught("save_current_state_to_pin", vk_to_pin[vk_code])
              ELSE save_pin(vk_to_pin[vk_code])
         ELSE IF CollaboratorRaises(fails)
              THEN Caught("load_pin_to_camera", vk_to_pin[vk_code])
              ELSE move_to_pin(vk_to_pin[vk_code], fails)
    ELSE IF vk_code \in DOMAIN vk_to_special
    THEN handle_special_action(vk_to_special[vk_code], fails)
    ELSE NoEffect

\* Mutant: the release of a key that is not tracked is dispatched as a press
\* of no duration.
handle_key_release_unguarded(vk_code, fails) ==
    /\ pressed_keys' = pressed_keys \ {vk_code}
    /\ key_press_times' = FnDel(key_press_times, vk_code)
    /\ Apply(Dispatch(vk_code,
                      IF vk_code \in DOMAIN key_press_times
                      THEN now - key_press_times[vk_code] ELSE 0,
                      fails))

\* Mutant: the key is untracked after the dispatch, so a dispatch that raises
\* leaves it tracked.
handle_key_release_untracks_last(vk_code, fails) ==
    IF vk_code \in pressed_keys /\ vk_code \in DOMAIN key_press_times
    THEN /\ Apply(Dispatch(vk_code, now - key_press_times[vk_code], fails))
         /\ IF CollaboratorRaises(fails)
            THEN UNCHANGED pressVars
            ELSE /\ pressed_keys' = pressed_keys \ {vk_code}
                 /\ key_press_times' = FnDel(key_press_times, vk_code)
    ELSE /\ pressed_keys' = pressed_keys \ {vk_code}
         /\ UNCHANGED key_press_times
         /\ Apply(NoEffect)

\* _handle_key_release
handle_key_release(vk_code, fails) ==
    IF vk_code \in pressed_keys
    THEN /\ pressed_keys' = pressed_keys \ {vk_code}
         /\ IF vk_code \in DOMAIN key_press_times
            THEN /\ key_press_times' = FnDel(key_press_times, vk_code)
                 /\ Apply(Dispatch(vk_code, now - key_press_times[vk_code], fails))
            ELSE /\ UNCHANGED key_press_times
                 /\ Apply(NoEffect)
    ELSE /\ UNCHANGED pressVars
         /\ Apply(NoEffect)

\* The listener callbacks.  Neither tests is_monitoring: a callback that the
\* listener thread had already begun when stop_monitoring ran still completes.
on_press(key) ==
    LET vk_code == get_vk_code(key) IN
    /\ UNCHANGED bindVars
    /\ UNCHANGED <<long_press_threshold, monVars, client, cacheVars, now, threadVars>>
    /\ IF vk_code # None THEN handle_key_press(vk_code) ELSE UNCHANGED pressVars
    /\ stoppedHeld' = stoppedHeld \ {vk_code}
    /\ Apply(NoEffect)
    /\ lastOp' = Op("on_press", 0, "", vk_code, "None")

on_release(key, fails) ==
    LET vk_code == get_vk_code(key) IN
    /\ UNCHANGED bindVars
    /\ UNCHANGED <<long_press_threshold, monVars, client, cacheVars, now, threadVars>>
    /\ IF vk_code # None THEN handle_key_release(vk_code, fails)
       ELSE UNCHANGED pressVars /\ Apply(NoEffect)
    /\ stoppedHeld' = stoppedHeld \ {vk_code}
    /\ lastOp' = Op("on_release", 0, "", vk_code, "None")

\* -------------------------------------------------------------- monitoring
\* Mutant: a listener is created whether monitoring is running or not.
start_monitoring_restarts(outcome) ==
    /\ UNCHANGED bindVars
    /\ UNCHANGED <<long_press_threshold, pressVars, flagVars, config_file, client,
                   cacheVars, pin_states, clipboard, now, threadVars, stoppedHeld>>
    /\ calls' = <<>>
    /\ sent' = <<>>
    /\ IF outcome = "ok"
       THEN /\ listener' = "Listener"
            /\ is_monitoring' = TRUE
            /\ lastOp' = Op("start_monitoring", 0, "listener_created", None, "True")
       ELSE /\ listener' = IF outcome = "start_raises" THEN "Listener" ELSE listener
            /\ UNCHANGED is_monitoring
            /\ lastOp' = Op("start_monitoring", 0, "failed", None, "False")

\* start_monitoring; outcome says where listener creation fails, if at all:
\* "ok", "ctor_raises" (keyboard.Listener(...) raises) or "start_raises"
\* (listener.start() raises after self.listener was assigned).  lastOp.action
\* tells which branch ran: "already_running" (no Listener constructed),
\* "listener_created" or "failed".
start_monitoring(outcome) ==
    /\ UNCHANGED bindVars
    /\ UNCHANGED <<long_press_threshold, pressVars, flagVars, config_file, client,
                   cacheVars, pin_states, clipboard, now, threadVars, stoppedHeld>>
    /\ calls' = <<>>
    /\ sent' = <<>>
    /\ IF is_monitoring
       THEN /\ UNCHANGED monVars
            /\ lastOp' = Op("start_monitoring", 0, "already_running", None, "True")
       ELSE IF outcome = "ok"
       THEN /\ listener' = "Listener"
            /\ is_monitoring' = TRUE
            /\ lastOp' = Op("start_monitoring", 0, "listener_created", None, "True")
       ELSE /\ listener' = IF outcome = "start_raises" THEN "Listener" ELSE listener
            /\ UNCHANGED is_monitoring
            /\ lastOp' = Op("start_monitoring", 0, "failed", None, "False")

\* Mutant: the tracked keys survive the stop.
stop_monitoring_keeps_keys ==
    /\ UNCHANGED bindVars
    /\ UNCHANGED <<long_press_threshold, flagVars, config_file, client,
                   cacheVars, pin_states, clipboard, now, threadVars>>
    /\ calls' = <<>>
    /\ sent' = <<>>
    /\ listener' = "None"
    /\ is_monitoring' = FALSE
    /\ UNCHANGED pressVars
    /\ stoppedHeld' = stoppedHeld \cup pressed_keys
    /\ lastOp' = Op("stop_monitoring", 0, "", None, "None")

\* stop_monitoring
stop_monitoring ==
    /\ UNCHANGED bindVars
    /\ UNCHANGED <<long_press_threshold, flagVars, config_file, client,
                   cacheVars, pin_states, clipboard, now, threadVars>>
    /\ calls' = <<>>
    /\ sent' = <<>>
    /\ listener' = "None"
    /\ is_monitoring' = FALSE
    /\ pressed_keys' = {}
    /\ key_press_times' = EmptyFn
    /\ stoppedHeld' = stoppedHeld \cup pressed_keys
    /\ lastOp' = Op("stop_monitoring", 0, "", None, "None")

\* shutdown: stop_monitoring, then save_config.
shutdown ==
    /\ UNCHANGED bindVars
    /\ UNCHANGED <<long_press_threshold, flagVars, client, cacheVars, pin_states,
                   clipboard, now, threadVars>>
    /\ calls' = <<>>
    /\ sent' = <<>>
    /\ listener' = "None"
    /\ is_monitoring' = FALSE
    /\ pressed_keys' = {}
    /\ key_press_times' = EmptyFn
    /\ stoppedHeld' = stoppedHeld \cup pressed_keys
    /\ save_config
    /\ lastOp' = Op("shutdown", 0, "", None, "None")

\* time.time() moves on.
Tick ==
    /\ now < MaxTime
    /\ now' = now + 1
    /\ UNCHANGED threadVars
    /\ UNCHANGED bindVars
    /\ UNCHANGED <<long_press_threshold, monVars, pressVars, flagVars, config_file,
                   client, cacheVars, pin_states, clipboard, stoppedHeld>>
    /\ calls' = <<>>
    /\ sent' = <<>>
    /\ lastOp' = Op("tick", 0, "", None, "None")

\* ------------------------------------------------- the threads, step by step
\* The listener thread runs _on_release while the GUI thread runs
\* stop_monitoring or setup_default_bindings; no lock orders them.  callback is
\* the listener thread's position and locals, reset the GUI thread's position
\* inside setup_default_bindings (with the reverse maps it started from).
\* Either thread may be inside _toggle_flight_mode: began is the flag value it
\* read on entry, value the value it handed to send_flying_mode.
IdleCallback ==
    [pc |-> "idle", vk |-> None, press_duration |-> 0, kind |-> "",
     pin_number |-> 0, action |-> "", began |-> FALSE, value |-> FALSE]
IdleReset ==
    [pc |-> "idle", pin |-> 0, old_vk_to_pin |-> EmptyFn, old_vk_to_special |-> EmptyFn,
     began |-> FALSE, value |-> FALSE]

\* _on_release up to the lookup: the key leaves the press tracker and the
\* press duration is taken.
release_begin(key) ==
    LET vk_code == get_vk_code(key) IN
    /\ callback.pc = "idle"
    /\ UNCHANGED bindVars
    /\ UNCHANGED <<long_press_threshold, monVars, flagVars, config_file, client,
                   cacheVars, pin_states, clipboard, now, reset>>
    /\ calls' = <<>>
    /\ sent' = <<>>
    /\ IF vk_code # None /\ vk_code \in pressed_keys
       THEN /\ pressed_keys' = pressed_keys \ {vk_code}
            /\ IF vk_code \in DOMAIN key_press_times
               THEN /\ key_press_times' = FnDel(key_press_times, vk_code)
                    /\ callback' = [IdleCallback EXCEPT
                                       !.pc = "lookup", !.vk = vk_code,
                                       !.press_duration = now - key_press_times[vk_code]]
               ELSE UNCHANGED <<key_press_times, callback>>
       ELSE UNCHANGED <<pressVars, callback>>
    /\ stoppedHeld' = stoppedHeld \ {vk_code}
    /\ lastOp' = Op("release_begin", 0, "", vk_code, "None")

\* _on_press up to the call of _handle_key_press: the listener thread has
\* entered the callback and taken the key code.
press_begin(key) ==
    LET vk_code == get_vk_code(key) IN
    /\ callback.pc = "idle"
    /\ UNCHANGED bindVars
    /\ UNCHANGED <<long_press_threshold, monVars, pressVars, flagVars, config_file,
                   client, cacheVars, pin_states, clipboard, now, reset, stoppedHeld>>
    /\ calls' = <<>>
    /\ sent' = <<>>
    /\ callback' = IF vk_code # None
                   THEN [IdleCallback EXCEPT !.pc = "press", !.vk = vk_code]
                   ELSE callback
    /\ lastOp' = Op("press_begin", 0, "", vk_code, "None")

\* _handle_key_press, run by a callback that has begun; the callback returns.
press_track ==
    /\ callback.pc = "press"
    /\ UNCHANGED bindVars
    /\ UNCHANGED <<long_press_threshold, monVars, flagVars, config_file, client,
                   cacheVars, pin_states, clipboard, now, reset>>
    /\ calls' = <<>>
    /\ sent' = <<>>
    /\ handle_key_press(callback.vk)
    /\ stoppedHeld' = stoppedHeld \ {callback.vk}
    /\ callback' = IdleCallback
    /\ lastOp' = Op("press_track", 0, "", callback.vk, "None")

\* The lookup in the reverse maps and the classification.
release_lookup ==
    /\ callback.pc = "lookup"
    /\ UNCHANGED bindVars
    /\ UNCHANGED <<long_press_threshold, monVars, pressVars, flagVars, config_file,
                   client, cacheVars, pin_states, clipboard, now, reset, stoppedHeld>>
    /\ calls' = <<>>
    /\ sent' = <<>>
    /\ callback' =
          IF callback.vk \in DOMAIN vk_to_pin
          THEN [callback EXCEPT !.pc = "dispatch",
                                !.kind = IF IsLongPress(callback.press_duration)
                                         THEN "save" ELSE "load",
                                !.pin_number = vk_to_pin[callback.vk]]
          ELSE IF callback.vk \in DOMAIN vk_to_special
          THEN [callback EXCEPT !.pc = "dispatch", !.kind = "special",
                                !.action = vk_to_special[callback.vk]]
          ELSE IdleCallback
    /\ lastOp' = Op("release_lookup", 0, "", callback.vk, "None")

\* The dispatched action; the callback returns.
release_dispatch(fails) ==
    /\ callback.pc = "dispatch"
    /\ UNCHANGED bindVars
    /\ UNCHANGED <<long_press_threshold, monVars, pressVars, client, cacheVars, now,
                   reset, stoppedHeld>>
    /\ Apply(IF callback.kind = "save" THEN save_pin(callback.pin_number)
             ELSE IF callback.kind = "load" THEN move_to_pin(callback.pin_number, fails)
             ELSE handle_special_action(callback.action, fails))
    /\ callback' = IdleCallback
    /\ lastOp' = Op("release_dispatch", callback.pin_number, callback.action,
                    callback.vk, "None")

\* _toggle_flight_mode statement by statement, on the listener thread (the
\* release callback has resolved toggle_flight) or on the GUI thread (the main
\* window's button); no lock orders it with the other thread or with the OSC
\* server thread that runs _handle_flying.
Locals(thread) == IF thread = "listener" THEN callback ELSE reset
ToggleStep(thread, pc, locals, name) ==
    /\ Locals(thread).pc = pc
    /\ IF thread = "listener"
       THEN callback' = locals /\ UNCHANGED reset
       ELSE reset' = locals /\ UNCHANGED callback
    /\ UNCHANGED bindVars
    /\ UNCHANGED <<long_press_threshold, monVars, pressVars, lookatme_enabled, client,
                   cacheVars, pin_states, clipboard, now, stoppedHeld>>
    /\ calls' = <<>>
    /\ lastOp' = Op(name, 0, thread, None, "None")

\* "not self.flight_mode_enabled": the flag is read.
toggle_begin(thread) ==
    /\ ToggleStep(thread, "idle",
                  [Locals(thread) EXCEPT !.pc = "toggle_flip", !.began = flight_mode_enabled],
                  "toggle_begin")
    /\ UNCHANGED <<flight_mode_enabled, config_file>>
    /\ sent' = <<>>

\* "self.flight_mode_enabled = ...": the negation of the value read is stored.
toggle_flip(thread) ==
    /\ ToggleStep(thread, "toggle_flip", [Locals(thread) EXCEPT !.pc = "toggle_send"],
                  "toggle_flip")
    /\ flight_mode_enabled' = ~Locals(thread).began
    /\ UNCHANGED config_file
    /\ sent' = <<>>

\* The client test and send_flying_mode(self.flight_mode_enabled): the flag
\* is read again for the call.  Without a client the flag is negated back and
\* the method returns.
toggle_send(thread, fails) ==
    IF client
    THEN LET r == send_flying_mode(NoNet, fails, flight_mode_enabled) IN
         /\ ToggleStep(thread, "toggle_send",
                       [Locals(thread) EXCEPT !.pc = "toggle_save",
                                              !.value = flight_mode_enabled],
                       "toggle_send")
         /\ UNCHANGED <<flight_mode_enabled, config_file>>
         /\ sent' = r.net.sent
    ELSE /\ ToggleStep(thread, "toggle_send", [Locals(thread) EXCEPT !.pc = "idle"],
                       "toggle_send")
         /\ flight_mode_enabled' = ~flight_mode_enabled
         /\ UNCHANGED config_file
         /\ sent' = <<>>

\* self.save_config(); _toggle_flight_mode returns.
toggle_return(thread) ==
    /\ ToggleStep(thread, "toggle_save", [Locals(thread) EXCEPT !.pc = "idle"],
                  "toggle_return")
    /\ UNCHANGED flight_mode_enabled
    /\ sent' = <<>>
    /\ save_config

\* What a step of setup_default_bindings leaves alone.
ResetFrame ==
    /\ UNCHANGED <<long_press_threshold, monVars, pressVars, flagVars, client,
                   cacheVars, pin_states, clipboard, now, callback, stoppedHeld>>
    /\ calls' = <<>>
    /\ sent' = <<>>
    /\ lastOp' = Op("setup_default_bindings_step", 0, "", None, "None")

\* self.key_bindings = {}; self.vk_to_pin = {}
reset_clear ==
    /\ reset.pc = "idle"
    /\ key_bindings' = <<>>
    /\ vk_to_pin' = EmptyFn
    /\ UNCHANGED <<special_key_bindings, vk_to_special, config_file>>
    /\ reset' = [IdleReset EXCEPT !.pc = "pins", !.pin = 1,
                                  !.old_vk_to_pin = vk_to_pin,
                                  !.old_vk_to_special = vk_to_special]
    /\ ResetFrame

\* One iteration of "for pin in range(1, 10)".
reset_fill_pin ==
    /\ reset.pc = "pins"
    /\ key_bindings' = DictSet(key_bindings, reset.pin, 96 + reset.pin)
    /\ vk_to_pin' = FnSet(vk_to_pin, 96 + reset.pin, reset.pin)
    /\ UNCHANGED <<special_key_bindings, vk_to_special, config_file>>
    /\ reset' = IF reset.pin = 9 THEN [reset EXCEPT !.pc = "specials"]
                ELSE [reset EXCEPT !.pin = reset.pin + 1]
    /\ ResetFrame

\* self.special_key_bindings = {...}; self.vk_to_special = {}
reset_specials ==
    /\ reset.pc = "specials"
    /\ special_key_bindings' = DefaultSpecialKeyBindings
    /\ vk_to_special' = EmptyFn
    /\ UNCHANGED <<key_bindings, vk_to_pin, config_file>>
    /\ reset' = [reset EXCEPT !.pc = "special_loop"]
    /\ ResetFrame

\* The loop that fills vk_to_special.
reset_fill_specials ==
    /\ reset.pc = "special_loop"
    /\ vk_to_special' = Reverse(special_key_bindings)
    /\ UNCHANGED <<key_bindings, vk_to_pin, special_key_bindings, config_file>>
    /\ reset' = [reset EXCEPT !.pc = "save"]
    /\ ResetFrame

\* self.save_config(); setup_default_bindings returns.
reset_save ==
    /\ reset.pc = "save"
    /\ UNCHANGED bindVars
    /\ reset' = IdleReset
    /\ ResetFrame
    /\ save_config

\* -------------------------------------------------------------------- Init
\* create_pin_system on a fresh installation: no config file, no pin file,
\* nothing received yet; the OSC client exists unless python-osc is missing.
Init ==
    /\ key_bindings = DefaultKeyBindings
    /\ vk_to_pin = Reverse(DefaultKeyBindings)
    /\ special_key_bindings = DefaultSpecialKeyBindings
    /\ vk_to_special = Reverse(DefaultSpecialKeyBindings)
    /\ long_press_threshold = DefaultThreshold
    /\ is_monitoring = FALSE
    /\ listener = "None"
    /\ pressed_keys = {}
    /\ key_press_times = EmptyFn
    /\ flight_mode_enabled = FALSE
    /\ lookatme_enabled = FALSE
    /\ config_file = <<ConfigData(DefaultKeyBindings, DefaultSpecialKeyBindings,
                                  DefaultThreshold, FALSE, FALSE)>>
    /\ client \in BOOLEAN
    /\ current_pose = <<>>
    /\ current_params = EmptyFn
    /\ pin_states = EmptyFn
    /\ clipboard = <<>>
    /\ now = 0
    /\ callback = IdleCallback
    /\ reset = IdleReset
    /\ stoppedHeld = {}
    /\ lastOp = [op |-> "init", pin |-> 0, action |-> "", vk |-> None,
                 ret |-> "None", changed |-> FALSE, stale |-> FALSE]
    /\ calls = <<>>
    /\ sent = <<>>

\* Construction with an OSC client.
InitClient == Init /\ client

\* ------------------------------------------------------------------ inputs
\* A small table offered to load_config: one slot and one named action.
SmallConfig ==
    [key_bindings_vk |-> << <<str(1), 97>> >>,
     special_key_bindings_vk |-> << <<"copy_current", 110>> >>]

\* Binding and unbinding.  Slot numbers: two real slots and the two nearest
\* invalid ones.  Keys: a default slot key (97), a default named-action key
\* (96), a key nobody owns by default (65), and two key objects without a
\* code.  Named actions: a real one and an unknown one.
NextBinding ==
    \/ \E pin \in {0, 1, 2, 10},
          key \in {KeyObj(97), KeyObj(96), KeyObj(65), KeyWithoutVk, KeyVkNone} :
          set_key_binding(pin, key)
    \/ \E action \in {"copy_current", "bogus"},
          key \in {KeyObj(97), KeyObj(96), KeyObj(65), KeyWithoutVk, KeyVkNone} :
          set_special_key_binding(action, key)
    \/ \E pin \in {0, 1, 2, 10} : remove_key_binding(pin)
    \/ \E action \in {"copy_current", "bogus"} : remove_special_key_binding(action)
    \/ ResetToDefaults

SpecBinding == InitClient /\ [][NextBinding]_vars


\* Transport behaviours of one operation, wherever `fails` is drawn from
\* {{}, {1}}: every send succeeds, or the first send_message call raises.

\* Keys the listener reports: Slot 1's default key (97), toggle_flight's
\* default key (111) and a key object without a code.
NextPress ==
    \/ \E key \in {KeyObj(97), KeyObj(111), KeyWithoutVk} : on_press(key)
    \/ \E key \in {KeyObj(97), KeyObj(111), KeyWithoutVk}, fails \in {{}, {1}} :
          on_release(key, fails)
    \/ Tick
    \/ SetLongPressThreshold(3)
    \/ start_monitoring("ok")
    \/ stop_monitoring
    \/ \E args \in { <<1, 2, 3, 0, 90, 0>> } : handle_pose(args)
    \/ set_key_binding(2, KeyObj(97))
    \/ remove_key_binding(2)

SpecPress == InitClient /\ [][NextPress]_vars

\* The toggles: pressed on the main window or dispatched from the default
\* toggle keys, with or without an OSC client, while VRChat reports its own
\* flag.

NextToggle ==
    \/ \E fails \in {{}, {1}} : ToggleFlightButton(fails)
    \/ \E fails \in {{}, {1}} : ToggleLookAtMeButton(fails)
    \/ \E key \in {KeyObj(111), KeyObj(106)} : on_press(key)
    \/ \E key \in {KeyObj(111), KeyObj(106)}, fails \in {{}, {1}} : on_release(key, fails)
    \/ \E args \in { <<Bool(TRUE)>>, <<Bool(FALSE)>>, <<>> } : handle_flying(args)

SpecToggle == Init /\ [][NextToggle]_vars

\* Saving and loading: tables reached by unbinding and rebinding, a moved
\* threshold slider, a shutdown that saves, a load of the saved file.
NextConfig ==
    \/ \E pin_number \in {1, 2} : remove_key_binding(pin_number)
    \/ \E action \in {"copy_current", "toggle_flight"} : remove_special_key_binding(action)
    \/ \E pin_number \in {1, 2}, key \in {KeyObj(98), KeyObj(65)} : set_key_binding(pin_number, key)
    \/ SetLongPressThreshold(1)
    \/ shutdown
    \/ \E config_data \in {<<>>, <<SmallConfig>>} : load_config(config_data)

SpecConfig == InitClient /\ [][NextConfig]_vars

\* The receive side: telemetry of every address, well formed and malformed.
\* A pose is stored as received; its values are plain numbers here.
CachePoseInputs == { <<1, 2, 3, 0, 90, 0>>, <<4, 5, 6, 10, 0, 0, 7>>, <<1, 2, 3, 0, 90>>, <<>> }
ZoomInputs == { <<Num(300)>>, <<Num(2000)>>, <<Str(<<"6", "0">>)>>, <<Str(<<"a", "b">>)>>, <<>> }
ParamInputs == { <<Num(20)>>, <<Str(<<"a", "b">>)>>, <<>> }
CacheFlagInputs == { <<Bool(TRUE)>>, <<Bool(FALSE)>>, <<Str(<<"o", "f", "f">>)>>, <<>> }

NextCache ==
    \/ \E args \in CachePoseInputs : handle_pose(args)
    \/ \E args \in ZoomInputs : handle_zoom(args)
    \/ \E args \in ParamInputs : handle_focal_distance(args)
    \/ \E args \in ParamInputs : handle_aperture(args)
    \/ \E args \in ParamInputs : handle_exposure(args)
    \/ \E args \in CacheFlagInputs : handle_flying(args)
    \/ \E args \in CacheFlagInputs : handle_lookatme(args)

SpecCache == Init /\ [][NextCache]_vars

\* The listener thread and the GUI thread interleaved.  The listener thread
\* runs one callback at a time, and only a started listener delivers events;
\* the GUI thread runs one of its operations at a time.
ThreadKeys == {KeyObj(97), KeyObj(111)}

NextThreads ==
    \/ \E key \in ThreadKeys :
          callback.pc = "idle" /\ listener = "Listener" /\ on_press(key)
    \/ \E key \in ThreadKeys : listener = "Listener" /\ release_begin(key)
    \/ release_lookup
    \/ \E fails \in {{}, {1}} : release_dispatch(fails)
    \/ reset.pc = "idle" /\ start_monitoring("ok")
    \/ reset.pc = "idle" /\ stop_monitoring
    \/ reset_clear
    \/ reset_fill_pin
    \/ reset_specials
    \/ reset_fill_specials
    \/ reset_save
    \/ Tick


SpecThreads == InitClient /\ [][NextThreads]_vars

\* stop_monitoring and start_monitoring on the GUI thread while the listener
\* thread is inside a press or a release callback.  Listener.stop() does not
\* wait for the listener thread, so a callback that has begun goes on after
\* stop_monitoring has returned.
NextStopRace ==
    \/ \E key \in ThreadKeys : listener = "Listener" /\ press_begin(key)
    \/ press_track
    \/ \E key \in ThreadKeys : listener = "Listener" /\ release_begin(key)
    \/ release_lookup
    \/ \E fails \in {{}, {1}} : release_dispatch(fails)
    \/ start_monitoring("ok")
    \/ stop_monitoring
    \/ \E args \in { <<1, 2, 3, 0, 90, 0>> } : handle_pose(args)
    \/ Tick

SpecStopRace == InitClient /\ [][NextStopRace]_vars

\* toggle_flight on the listener thread and on the GUI thread, statement by
\* statement, while VRChat reports its flag.
NextToggleRace ==
    \/ \E thread \in {"listener", "gui"} : toggle_begin(thread)
    \/ \E thread \in {"listener", "gui"} : toggle_flip(thread)
    \/ \E thread \in {"listener", "gui"}, fails \in {{}, {1}} : toggle_send(thread, fails)
    \/ \E thread \in {"listener", "gui"} : toggle_return(thread)
    \/ \E args \in { <<Bool(TRUE)>>, <<Bool(FALSE)>> } : handle_flying(args)

SpecToggleRace == Init /\ [][NextToggleRace]_vars

\* The outbound controller called method by method, with and without a
\* client, with sends that succeed or raise at the first, second or third
\* send_message call, next to the toggles that call it from the main window.
SendPoseInputs == { <<1, 2, 3, 0, 90, 0>>, <<4, 5, 6, 10, 0, 0, 7>>, <<1, 2, 3, 0, 90>>, <<>> }
SendFailInputs == {{}, {1}, {2}, {3}}

NextSend ==
    \/ \E pose_data \in SendPoseInputs, fails \in SendFailInputs :
          CallSendCameraPose(pose_data, fails)
    \/ \E params \in { <<300, 15, 40, 0>>, <<450, 20, 14, 10>>, <<200, 100, 320, -100>>,
                        <<1500, 0, 1000, 40>> },
          fails \in SendFailInputs :
          CallSendCameraParams(params, fails)
    \/ \E enabled \in BOOLEAN, fails \in SendFailInputs : CallSendFlyingMode(enabled, fails)
    \/ \E enabled \in BOOLEAN, fails \in SendFailInputs : CallSendLookAtMe(enabled, fails)
    \/ \E fails \in SendFailInputs : ToggleFlightButton(fails)
    \/ \E fails \in SendFailInputs : ToggleLookAtMeButton(fails)

SpecSend == Init /\ [][NextSend]_vars

\* copy_current from its default key (110) and move_clipboard from its
\* default key (96), with nothing, a numeric pose, a pose carrying a blob or a
\* short pose received, and zoom messages in between.
NextCopy ==
    \/ \E key \in {KeyObj(110), KeyObj(96)} : on_press(key)
    \/ \E key \in {KeyObj(110), KeyObj(96)}, fails \in {{}, {1}} : on_release(key, fails)
    \/ \E args \in { <<1, 2, 3, 0, 90, 0>>, <<4, 5, 6, 10, 0, 0>>, <<1, 2, 3, 0, 90, Blob>>,
                      <<1, 2, 3, 0, 90>> } :
          handle_pose(args)
    \/ \E args \in { <<Num(300)>>, <<Num(600)>> } : handle_zoom(args)

SpecCopy == Init /\ [][NextCopy]_vars

\* move_clipboard from its default key (96) and copy_current from its default
\* key (110), over clipboard texts that are empty, not JSON, JSON of another
\* type, JSON lacking camera_params, a complete state, a state with fields
\* left to their defaults, and a state whose position has a fourth field.
ClipboardJson(type, position, rotation, camera_params) ==
    <<"json", [type |-> type, position |-> position, rotation |-> rotation,
               camera_params |-> camera_params]>>

NextPaste ==
    \/ \E key \in {KeyObj(96), KeyObj(110)} : on_press(key)
    \/ \E key \in {KeyObj(96), KeyObj(110)}, fails \in SendFailInputs : on_release(key, fails)
    \/ \E text \in
          { <<"">>, <<"hello">>,
            ClipboardJson("other", <<1, 2, 3>>, <<0, 90, 0>>, [zoom |-> 300]),
            <<"json", [type |-> "vrchat_camera_state", position |-> <<1, 2, 3>>,
                       rotation |-> <<0, 90, 0>>]>>,
            ClipboardJson("vrchat_camera_state", <<1, 2, 3>>, <<0, 90, 0>>,
                          [zoom |-> 300, focal_distance |-> 20, aperture |-> 40, exposure |-> 10]),
            ClipboardJson("vrchat_camera_state", <<7>>, <<>>, [zoom |-> 5000]),
            ClipboardJson("vrchat_camera_state", <<1, 2, 3, 4>>, <<0, 90, 0>>,
                          [zoom |-> 300]) } : ClipboardCopied(text)
    \/ \E args \in { <<4, 5, 6, 10, 0, 0>> } : handle_pose(args)

SpecPaste == Init /\ [][NextPaste]_vars

\* Loading: the handler is constructed again on whatever keyboard_config.json
\* holds, and load_config is called on the living handler as the settings
\* window does, after the table was customised.
\* What the settings window's _save_settings writes and hands to load_config:
\* its tables are under other names than load_config reads.
GuiSettings ==
    [key_bindings |-> << <<str(1), 65>> >>,
     special_key_bindings |-> << <<"copy_current", 110>> >>,
     long_press_threshold |-> 1, version |-> "3.0"]
\* Tables where slot 1, slot 2 and copy_current carry the same key code.
SharedKeyConfig ==
    [key_bindings_vk |-> << <<str(1), 97>>, <<str(2), 97>> >>,
     special_key_bindings_vk |-> << <<"copy_current", 97>>, <<"toggle_flight", 111>> >>]
\* What load_config is handed: nothing, the small file, the settings window's
\* data, data without a slot table, and the shared-key tables.
LoadDataInputs ==
    { <<>>, <<SmallConfig>>, <<GuiSettings>>,
      <<[special_key_bindings_vk |-> << <<"copy_current", 110>> >>]>>,
      <<SharedKeyConfig>> }

\* A construction that raised left no handler to call.
HandlerExists == ~(lastOp.op = "construct" /\ lastOp.ret = "raise")

NextLoad ==
    \/ construct
    \* the file is absent, unreadable, the settings window's, without slot
    \* entries, without named-action entries, with a JSON list for the slot
    \* table, or with one key code under two slots and a named action
    \/ HandlerExists /\
          \E file \in
                { <<>>, <<[corrupt |-> TRUE]>>, <<GuiSettings>>,
                  <<[key_bindings_vk |-> <<>>,
                     special_key_bindings_vk |-> << <<"copy_current", 110>> >>]>>,
                  <<[key_bindings_vk |-> << <<str(1), 65>> >>,
                     special_key_bindings_vk |-> <<>>]>>,
                  <<[key_bindings_vk |-> <<>>,
                     special_key_bindings_vk |-> << <<"copy_current", 110>> >>,
                     ill_typed |-> {"key_bindings_vk"}]>>,
                  <<SharedKeyConfig>> } : FileEdited(file)
    \/ HandlerExists /\ \E config_data \in LoadDataInputs : load_config(config_data)
    \/ HandlerExists /\ set_key_binding(1, KeyObj(65))
    \/ HandlerExists /\ remove_key_binding(2)

SpecLoad == InitClient /\ [][NextLoad]_vars

\* The threshold slider moved while a key is held: keys go down at time 0,
\* the slider is moved at time 1 or later, to 0.4 s or to 1.2 s.
NextThreshold ==
    \/ \E key \in {KeyObj(97), KeyObj(98)} : now = 0 /\ on_press(key)
    \/ \E key \in {KeyObj(97), KeyObj(98)}, fails \in {{}, {1}} : on_release(key, fails)
    \/ \E value \in {1, 3} : now >= 1 /\ SetLongPressThreshold(value)
    \/ \E args \in { <<1, 2, 3, 0, 90, 0>> } : handle_pose(args)
    \/ Tick

SpecThreshold == InitClient /\ [][NextThreshold]_vars

\* Dispatches that fail: a slot key, a toggle key and the paste key, with
\* every call succeeding, the handler's own call raising, or the client's
\* first send_message raising.
NextFault ==
    \/ \E key \in {KeyObj(97), KeyObj(111), KeyObj(96)} : on_press(key)
    \/ \E key \in {KeyObj(97), KeyObj(111), KeyObj(96)}, fails \in {{}, {0}, {1}} :
          on_release(key, fails)
    \/ \E args \in { <<1, 2, 3, 0, 90, 0>> } : handle_pose(args)
    \/ Tick

SpecFault == InitClient /\ [][NextFault]_vars

\* Storing and recalling: the keys of slots 1 and 2, held for any time, over
\* a cache fed with two poses, a zoom inside and one above its range, and an
\* aperture below its range; a recall meets a transport that works, or whose
\* first, second or fifth send_message call raises.
NextStore ==
    \/ \E key \in {KeyObj(97), KeyObj(98)} : on_press(key)
    \/ \E key \in {KeyObj(97), KeyObj(98)}, fails \in {{}, {1}, {2}, {5}} :
          on_release(key, fails)
    \/ \E args \in { <<1, 2, 3, 0, 90, 0>>, <<4, 5, 6, 10, 0, 0>> } : handle_pose(args)
    \/ \E args \in { <<Num(300)>>, <<Num(2000)>> } : handle_zoom(args)
    \/ handle_aperture(<<Num(5)>>)
    \/ Tick

SpecStore == InitClient /\ [][NextStore]_vars

\* Releases against a table that changes while keys are held: the keys of
\* slot 1 (97) and toggle_flight (111) go down at time 0 and come up at any
\* time; at time 1 or later copy_current is moved onto toggle_flight's key
\* and unbound again, slot 1 is unbound and its key given to toggle_flight,
\* and tables are loaded in which key 97 stands under two slots and a named
\* action.
NextRelease ==
    \/ now = 0 /\ \E key \in {KeyObj(97), KeyObj(111)} : on_press(key)
    \/ \E key \in {KeyObj(97), KeyObj(111)} : on_release(key, {})
    \/ Tick
    \/ now >= 1 /\ set_special_key_binding("copy_current", KeyObj(111))
    \/ now >= 1 /\ remove_special_key_binding("copy_current")
    \/ now >= 1 /\ remove_key_binding(1)
    \/ now >= 1 /\ set_special_key_binding("toggle_flight", KeyObj(97))
    \/ now >= 1 /\ load_config(<<SharedKeyConfig>>)

SpecRelease == InitClient /\ [][NextRelease]_vars

\* The pin store: save_pin_state on the slots at and next to the ends of
\* 1..9, with a state inside every range and one outside every range;
\* delete_pin_state; and load_data on a file that is absent, unreadable, or
\* holds pins under the keys "2", "0", "10" and "x", a state with an unknown
\* parameter, a state that is no object, and a pin after it.
NextPins ==
    \/ \E pin_number \in {0, 1, 9, 10},
          state \in { CameraState(<<1, 2, 3>>, <<0, 90, 0>>,
                                  [zoom |-> 300, focal_distance |-> 20,
                                   aperture |-> 40, exposure |-> 10]),
                      CameraState(<<4, 5, 6>>, <<10, 0, 0>>,
                                  [zoom |-> 2000, focal_distance |-> -5,
                                   aperture |-> 5, exposure |-> -200]) } :
          SavePinState(pin_number, state)
    \/ \E pin_number \in {0, 1, 9} : delete_pin_state(pin_number)
    \/ \E file \in
          { <<>>, <<[corrupt |-> TRUE]>>,
            <<[saved_poses |->
                 << <<str(2), [position |-> <<7, 8, 9>>, rotation |-> <<>>,
                               camera_params |-> [zoom |-> 100, exposure |-> 50]]>>,
                    <<str(0), [position |-> <<>>, rotation |-> <<>>,
                               camera_params |-> [zoom |-> 300]]>>,
                    <<str(10), [position |-> <<>>, rotation |-> <<>>,
                                camera_params |-> [zoom |-> 300]]>>,
                    << <<"x">>, [position |-> <<>>, rotation |-> <<>>,
                                 camera_params |-> [zoom |-> 300]]>> >>]>>,
            <<[saved_poses |->
                 << <<str(3), [position |-> <<>>, rotation |-> <<>>,
                               camera_params |-> [bogus |-> 1]]>>,
                    <<str(4), [position |-> <<1>>, rotation |-> <<>>,
                               camera_params |-> [aperture |-> 500]]>>,
                    <<str(5), [corrupt |-> TRUE]>>,
                    <<str(6), [position |-> <<>>, rotation |-> <<>>,
                               camera_params |-> [zoom |-> 300]]>> >>]>> } :
          load_data(file)

SpecPins == Init /\ [][NextPins]_vars

\* ================================================================== claims
\* The logical actions bound in the forward maps, each with its key:
\* <<"slot", n>> for Slot(n), <<"named", a>> for Named(a).
BoundActions ==
    {<<"slot", key_bindings[i][1]>> : i \in 1..Len(key_bindings)}
    \cup {<<"named", special_key_bindings[i][1]>> : i \in 1..Len(special_key_bindings)}
KeyOf(a) ==
    IF a[1] = "slot" THEN DictGet(key_bindings, a[2])
    ELSE DictGet(special_key_bindings, a[2])

\* C1 (binding uniqueness): after any sequence of bind, unbind and
\* reset-to-defaults operations from the default table, no two distinct
\* logical actions are bound to the same key code.
C1_BindingUniqueness ==
    \A a1 \in BoundActions, a2 \in BoundActions : a1 # a2 => KeyOf(a1) # KeyOf(a2)

\* The logical action a bind operation recorded in lastOp was for.
BindTarget(op) ==
    IF op.op = "set_key_binding" THEN <<"slot", op.pin>> ELSE <<"named", op.action>>
IsBind(op) ==
    \/ op.op = "set_key_binding" /\ op.pin \in Slots
    \/ op.op = "set_special_key_binding" /\ op.action \in ValidActionSet
\* Key k is owned by a logical action other than a.
OwnedByOther(a, k) == \E b \in BoundActions : b # a /\ KeyOf(b) = k

\* C2 (conflict rejection): a bind(a, k) issued while k is owned by another
\* action b reports failure and leaves the whole binding table unchanged.
C2_ConflictRejection ==
    [][(IsBind(lastOp') /\ lastOp'.vk # None /\ OwnedByOther(BindTarget(lastOp'), lastOp'.vk))
         => (lastOp'.ret = "False" /\ UNCHANGED bindVars)]_vars

\* C10 (resetToDefaults result): setup_default_bindings leaves exactly
\* Slot(n) -> 96+n for n in 1..9, copy_current -> 110, move_clipboard -> 96,
\* toggle_flight -> 111, toggle_lookatme -> 106: 13 pairwise distinct keys,
\* reverse lookups the exact inverse, and no other binding.
C10_ResetToDefaults ==
    lastOp.op = "setup_default_bindings" =>
        /\ Len(key_bindings) = 9
        /\ DictKeys(key_bindings) = 1..9
        /\ \A n \in 1..9 : DictGet(key_bindings, n) = 96 + n
        /\ Len(special_key_bindings) = 4
        /\ DictKeys(special_key_bindings) = ValidActionSet
        /\ DictGet(special_key_bindings, "copy_current") = 110
        /\ DictGet(special_key_bindings, "move_clipboard") = 96
        /\ DictGet(special_key_bindings, "toggle_flight") = 111
        /\ DictGet(special_key_bindings, "toggle_lookatme") = 106
        /\ DOMAIN vk_to_pin = {96 + n : n \in 1..9}
        /\ \A n \in 1..9 : vk_to_pin[96 + n] = n
        /\ DOMAIN vk_to_special = {110, 96, 111, 106}
        /\ vk_to_special[110] = "copy_current"
        /\ vk_to_special[96] = "move_clipboard"
        /\ vk_to_special[111] = "toggle_flight"
        /\ vk_to_special[106] = "toggle_lookatme"
        /\ Cardinality({KeyOf(a) : a \in BoundActions}) = 13
\* A reset that had a mutated table to restore.
C10_Witness == lastOp.op = "setup_default_bindings" /\ lastOp.changed

\* Everything an event callback can touch besides the press tracker.
dispatchTargets == <<bindVars, flagVars, pin_states, clipboard, config_file, cacheVars,
                     long_press_threshold, monVars>>

\* Dispatch follows the reverse lookup: the release of a tracked key that
\* vk_to_pin resolves to n makes exactly one call, save_current_state_to_pin(n)
\* when the key was held for at least the threshold and load_pin_to_camera(n)
\* otherwise.
ReverseLookupClassification ==
    [][\A k \in pressed_keys \cap (DOMAIN key_press_times) \cap (DOMAIN vk_to_pin) :
          (lastOp'.op = "on_release" /\ lastOp'.vk = k) =>
              /\ Len(calls') = 1
              /\ calls'[1][2] = vk_to_pin[k]
              /\ calls'[1][1] = IF now - key_press_times[k] >= long_press_threshold
                                THEN "save_current_state_to_pin"
                                ELSE "load_pin_to_camera"]_vars

\* C3 (press/release classification): for a key bound to Slot(n) in the
\* binding table, a press followed by a release dispatches exactly one action:
\* save_current_state_to_pin(n) when release time minus press time is >= the
\* long-press threshold (equality counts as long), load_pin_to_camera(n)
\* otherwise; never both and never neither.
C3_PressReleaseClassification ==
    [][\A k \in pressed_keys \cap (DOMAIN key_press_times), n \in Slots :
          (/\ DictHas(key_bindings, n)
           /\ DictGet(key_bindings, n) = k
           /\ lastOp'.op = "on_release"
           /\ lastOp'.vk = k) =>
              /\ Len(calls') = 1
              /\ calls'[1][2] = n
              /\ calls'[1][1] = IF now - key_press_times[k] >= long_press_threshold
                                THEN "save_current_state_to_pin"
                                ELSE "load_pin_to_camera"]_vars

\* C4 (repeat press idempotence): a press event for a key already tracked as
\* pressed changes nothing; the recorded press time stays that of the first
\* press.
C4_RepeatPressIdempotent ==
    [][\A k \in pressed_keys :
          (lastOp'.op = "on_press" /\ lastOp'.vk = k) =>
              /\ UNCHANGED pressVars
              /\ UNCHANGED dispatchTargets
              /\ calls' = <<>>
              /\ sent' = <<>>]_vars
\* A repeat press: the key's recorded press time is earlier than the time of
\* the press event just handled.
C4_Witness ==
    /\ lastOp.op = "on_press"
    /\ lastOp.vk \in pressed_keys
    /\ key_press_times[lastOp.vk] < now

\* C5 (orphan release): a release event for a key that is not tracked as
\* pressed dispatches nothing and leaves the press-tracking state, the binding
\* table, the toggle flags and the pin store unchanged.
C5_OrphanRelease ==
    [][(lastOp'.op = "on_release" /\ lastOp'.vk # None /\ lastOp'.vk \notin pressed_keys) =>
          /\ UNCHANGED pressVars
          /\ UNCHANGED dispatchTargets
          /\ calls' = <<>>
          /\ sent' = <<>>]_vars
\* The release of a bound key was handled without a dispatch, so the key was
\* not tracked.
C5_Witness ==
    /\ lastOp.op = "on_release"
    /\ lastOp.vk \in (DOMAIN vk_to_pin) \cup (DOMAIN vk_to_special)
    /\ calls = <<>>
    /\ sent = <<>>

\* C6 (reset clears state): when stop_monitoring completes no key is tracked
\* as pressed, and the release of a key that was pressed before the stop and
\* not pressed again since dispatches no action, before or after a later
\* start_monitoring.
C6_ResetClearsState ==
    [][/\ lastOp'.op = "stop_monitoring" =>
              (pressed_keys' = {} /\ key_press_times' = EmptyFn)
       /\ (lastOp'.op = "on_release" /\ lastOp'.vk \in stoppedHeld) =>
              /\ calls' = <<>>
              /\ sent' = <<>>
              /\ UNCHANGED dispatchTargets]_vars
\* After a restart, the release of a bound key that was held across the stop.
C6_Witness ==
    /\ lastOp.op = "on_release"
    /\ lastOp.stale
    /\ is_monitoring
    /\ lastOp.vk \in DOMAIN vk_to_pin

\* A step on which the toggle named a runs: its button was pressed, or the
\* release of a tracked key resolved to it.
ToggleInvoked(a) ==
    \/ lastOp'.op = "toggle_flight_mode" /\ a = "toggle_flight"
    \/ lastOp'.op = "toggle_lookatme" /\ a = "toggle_lookatme"
    \/ /\ lastOp'.op = "on_release"
       /\ lastOp'.vk \in pressed_keys \cap (DOMAIN key_press_times)
       /\ lastOp'.vk \notin DOMAIN vk_to_pin
       /\ lastOp'.vk \in DOMAIN vk_to_special
       /\ vk_to_special[lastOp'.vk] = a
ToggleNames == {"toggle_flight", "toggle_lookatme"}

\* The flags in the configuration file, or the given flags when no file exists.
PersistedFlags(file, flags) ==
    IF file = <<>> THEN flags
    ELSE <<file[1].flight_mode_enabled, file[1].lookatme_enabled>>

\* C7 (toggle revert when the channel is unavailable): a toggle invoked while
\* the outbound client is not initialised leaves both local flags at their
\* values before the call, sends no message and persists nothing.
C7_ToggleRevertNoClient ==
    [][\A a \in ToggleNames :
          (ToggleInvoked(a) /\ ~client) =>
              /\ UNCHANGED flagVars
              /\ sent' = <<>>
              /\ UNCHANGED config_file]_vars
\* Without a client, the flight toggle has just run on a flag that VRChat had
\* set, and the flag is still set.
C7_Witness ==
    /\ ~client
    /\ lastOp.op = "toggle_flight_mode"
    /\ flight_mode_enabled
    /\ PersistedFlags(config_file, <<FALSE, FALSE>>) = <<FALSE, FALSE>>

\* C8 (toggle revert on a failed send): when a toggle's send is attempted and
\* reports failure, the local flag keeps its value from before the call and the
\* flipped value is not persisted.
C8_ToggleRevertFailedSend ==
    [][\A a \in ToggleNames :
          (ToggleInvoked(a) /\ client /\ sent' = <<>>) =>
              /\ UNCHANGED flagVars
              /\ PersistedFlags(config_file', flagVars) = PersistedFlags(config_file, flagVars)]_vars

\* A dict as the set of its items (dict equality ignores order).
Items(d) == {d[i] : i \in 1..Len(d)}

\* C9 (config round-trip): when the file holds what save_config writes for the
\* current table and threshold, load_config of that file yields forward maps,
\* reverse maps and a long-press threshold identical to the current ones,
\* also when all slots or all named actions are unbound.
C9_ConfigRoundTrip ==
    [][(/\ lastOp'.op = "load_config"
        /\ lastOp'.action = "config_file"
        /\ config_file = <<ConfigData(key_bindings, special_key_bindings,
                                      long_press_threshold, flight_mode_enabled,
                                      lookatme_enabled)>>) =>
          /\ Items(key_bindings') = Items(key_bindings)
          /\ Items(special_key_bindings') = Items(special_key_bindings)
          /\ vk_to_pin' = vk_to_pin
          /\ vk_to_special' = vk_to_special
          /\ long_press_threshold' = long_press_threshold]_vars

\* The forward entry of the logical action an unbind names.
UnbindTarget(op) == IF op.op = "remove_key_binding" THEN <<"slot", op.pin>>
                    ELSE <<"named", op.action>>
IsUnbind(op) == op.op \in {"remove_key_binding", "remove_special_key_binding"}
\* Every field of the handler and its collaborators (the observers left out).
programVars == <<bindVars, long_press_threshold, monVars, pressVars, flagVars,
                 config_file, client, cacheVars, pin_states, clipboard>>

\* C11 (unbind is idempotent): an unbind of a bound action returns True and
\* leaves the action without a forward binding; an unbind of an action that is
\* not bound returns False and changes no state, so an unbind repeated right
\* after a successful one returns False and changes nothing.
C11_UnbindIdempotent ==
    [][IsUnbind(lastOp') =>
          /\ IF UnbindTarget(lastOp') \in BoundActions
             THEN lastOp'.ret = "True"
             ELSE lastOp'.ret = "False" /\ UNCHANGED programVars
          /\ UnbindTarget(lastOp') \notin BoundActions'
          /\ (IsUnbind(lastOp) /\ lastOp.ret = "True"
              /\ UnbindTarget(lastOp') = UnbindTarget(lastOp))
                 => (lastOp'.ret = "False" /\ UNCHANGED programVars)]_vars
\* Slot 1, bound in the default table, has been unbound, and the unbind just
\* repeated returned False.
C11_Witness ==
    /\ lastOp.op = "remove_key_binding"
    /\ lastOp.pin = 1
    /\ lastOp.ret = "False"
    /\ ~DictHas(key_bindings, 1)

\* C12 (stop waits for in-flight dispatch): when stop_monitoring has returned,
\* the listener thread is in no release callback: no dispatched action is
\* still running and none is yet to begin.
C12_StopWaitsForDispatch ==
    lastOp.op = "stop_monitoring" => callback.pc = "idle"

\* What a key resolves to in a pair of reverse maps.
Resolve(pins, specials, k) ==
    IF k \in DOMAIN pins THEN <<"slot", pins[k]>>
    ELSE IF k \in DOMAIN specials THEN <<"named", specials[k]>>
    ELSE <<"none", "">>
\* What the lookup that has just run resolved its key to.
Resolved(cb) ==
    IF cb.pc # "dispatch" THEN <<"none", "">>
    ELSE IF cb.kind = "special" THEN <<"named", cb.action>>
    ELSE <<"slot", cb.pin_number>>

\* C13 (resetToDefaults is atomic for the listener thread): a release lookup
\* that runs while setup_default_bindings is in progress resolves its key as
\* the table before the reset or as the default table does; a key bound both
\* before and after the reset never resolves to no action.
C13_ResetAtomic ==
    [][(lastOp'.op = "release_lookup" /\ reset.pc # "idle") =>
          LET k == callback.vk
              old == Resolve(reset.old_vk_to_pin, reset.old_vk_to_special, k)
              new == Resolve(Reverse(DefaultKeyBindings),
                             Reverse(DefaultSpecialKeyBindings), k)
          IN  /\ Resolved(callback') \in {old, new}
              /\ (old[1] # "none" /\ new[1] # "none") => callback'.pc = "dispatch"]_vars

\* The parameter a read returns when current_params holds params.
ReadParam(params, key, default) == IF key \in DOMAIN params THEN params[key] ELSE default

\* C14 (cache snapshot completeness): once a 6-value pose P has been
\* processed, processing a zoom message Z makes a read of the current camera
\* state return pose P and zoom Z with the other three parameters at their
\* last received or default values; every later step other than a pose or zoom
\* message leaves the pose and the zoom of that read as they are.
C14_CacheSnapshot ==
    [][/\ \A args \in ZoomInputs :
             (/\ handle_zoom(args)
              /\ Len(args) > 0
              /\ float(args[1]).ok
              /\ Len(current_pose) = 6) =>
                 /\ get_current_state' # <<>>
                 /\ to_pose_list(get_current_state'[1]) = current_pose
                 /\ get_current_state'[1].camera_params =
                       [zoom |-> float(args[1]).value,
                        focal_distance |-> ReadParam(current_params, "focal_distance", 15),
                        aperture |-> ReadParam(current_params, "aperture", 150),
                        exposure |-> ReadParam(current_params, "exposure", 0)]
       /\ (lastOp'.op \notin {"handle_pose", "handle_zoom"} /\ get_current_state # <<>>) =>
             /\ get_current_state' # <<>>
             /\ to_pose_list(get_current_state'[1]) = to_pose_list(get_current_state[1])
             /\ get_current_state'[1].camera_params.zoom
                   = get_current_state[1].camera_params.zoom]_vars
\* A pose and then a zoom of 30.0 were processed, and a focal distance too:
\* the read holds all of them.
C14_Witness ==
    /\ lastOp.op = "handle_zoom"
    /\ get_current_state # <<>>
    /\ to_pose_list(get_current_state[1]) = <<4, 5, 6, 10, 0, 0>>
    /\ get_current_state[1].camera_params.zoom = 300
    /\ get_current_state[1].camera_params.focal_distance = 20

\* The cache and the flags the telemetry handlers write.
telemetryVars == <<current_pose, current_params, flight_mode_enabled, lookatme_enabled>>
\* A malformed message: too few arguments, or an argument that is not a
\* number (a boolean flag value is well formed).
MalformedParam(args) == Len(args) = 0 \/ (args[1][1] = "str" /\ ~IsIntString(args[1][2]))
MalformedFlag(args) == Len(args) = 0 \/ args[1][1] = "str"

\* C19 (malformed telemetry is dropped): a pose message with fewer than 6
\* arguments, or a parameter or flag message with no argument or a non-numeric
\* argument, leaves the cached pose, the cached parameters and both flags
\* exactly as they were.
C19_MalformedDropped ==
    [][/\ \A args \in CachePoseInputs :
             (handle_pose(args) /\ Len(args) < 6) => UNCHANGED telemetryVars
       /\ \A args \in ZoomInputs :
             (handle_zoom(args) /\ MalformedParam(args)) => UNCHANGED telemetryVars
       /\ \A args \in ParamInputs :
             ((handle_focal_distance(args) \/ handle_aperture(args) \/ handle_exposure(args))
              /\ MalformedParam(args)) => UNCHANGED telemetryVars
       /\ \A args \in CacheFlagInputs :
             ((handle_flying(args) \/ handle_lookatme(args)) /\ MalformedFlag(args))
                 => UNCHANGED telemetryVars]_vars

\* What save_config would write for the fields now in memory.
InMemoryConfig ==
    ConfigData(key_bindings, special_key_bindings, long_press_threshold,
               flight_mode_enabled, lookatme_enabled)
\* The persisted part of the configuration.
configFields == <<key_bindings, special_key_bindings, long_press_threshold, flagVars>>
\* An operation of the kinds that change the configuration, completed with
\* success: a bind or unbind that returned True, a reset to defaults, a
\* threshold change, an inbound flag message, a toggle whose message was sent.
ConfigMutation ==
    \/ /\ lastOp'.op \in {"set_key_binding", "set_special_key_binding",
                          "remove_key_binding", "remove_special_key_binding"}
       /\ lastOp'.ret = "True"
    \/ lastOp'.op \in {"setup_default_bindings", "set_long_press_threshold",
                       "handle_flying", "handle_lookatme"}
    \/ \E a \in ToggleNames : ToggleInvoked(a) /\ sent' # <<>>

\* C15 (persistence after every mutation): after every completed operation
\* that changes the bindings, the threshold or a toggle flag, the persisted
\* configuration equals the one in memory.
C15_PersistedAfterMutation ==
    [][(ConfigMutation /\ configFields' # configFields) =>
          config_file' = <<InMemoryConfig'>>]_vars

\* A key released after being held for at least the threshold / for less.
LongRelease(k) ==
    /\ lastOp'.op = "on_release" /\ lastOp'.vk = k
    /\ now - key_press_times[k] >= long_press_threshold
ShortRelease(k) ==
    /\ lastOp'.op = "on_release" /\ lastOp'.vk = k
    /\ now - key_press_times[k] < long_press_threshold
\* The callback made at least one pin-system call and every call it made
\* returned False.
ReportsFailure(log) ==
    /\ Len(log) >= 1
    /\ \A i \in 1..Len(log) : log[i][3] = FALSE

\* When the reverse lookup resolves a long-pressed key to slot n and the cache
\* holds no state, the one call made is save_current_state_to_pin(n), it
\* returns False, no pin is stored and nothing is transmitted.
EmptyCacheStoreSkipped ==
    [][\A k \in pressed_keys \cap (DOMAIN key_press_times) \cap (DOMAIN vk_to_pin) :
          (LongRelease(k) /\ get_current_state = <<>>) =>
              /\ calls' = << <<"save_current_state_to_pin", vk_to_pin[k], FALSE>> >>
              /\ pin_states' = pin_states
              /\ sent' = <<>>]_vars

\* C16 (store with an empty cache): a long-press of a key bound to Slot(n)
\* while no pose message has been received reports failure, leaves the pin
\* store unchanged and sends nothing.
C16_StoreWithEmptyCache ==
    [][\A k \in pressed_keys \cap (DOMAIN key_press_times), n \in Slots :
          (/\ DictHas(key_bindings, n)
           /\ DictGet(key_bindings, n) = k
           /\ LongRelease(k)
           /\ current_pose = <<>>) =>
              /\ ReportsFailure(calls')
              /\ pin_states' = pin_states
              /\ sent' = <<>>]_vars

\* When the reverse lookup resolves a short-pressed key to a slot n that
\* holds no pin, the one call made is load_pin_to_camera(n), it returns False,
\* nothing is transmitted and neither the pin store nor the cache changes.
EmptySlotRecallSkipped ==
    [][\A k \in pressed_keys \cap (DOMAIN key_press_times) \cap (DOMAIN vk_to_pin) :
          (ShortRelease(k) /\ vk_to_pin[k] \notin DOMAIN pin_states) =>
              /\ calls' = << <<"load_pin_to_camera", vk_to_pin[k], FALSE>> >>
              /\ sent' = <<>>
              /\ pin_states' = pin_states
              /\ cacheVars' = cacheVars]_vars

\* C17 (recall of an empty slot): a short-press of a key bound to Slot(n) when
\* slot n holds no stored pin sends no outbound message, reports failure, and
\* changes neither the pin store nor the cache.
C17_RecallEmptySlot ==
    [][\A k \in pressed_keys \cap (DOMAIN key_press_times), n \in Slots :
          (/\ DictHas(key_bindings, n)
           /\ DictGet(key_bindings, n) = k
           /\ ShortRelease(k)
           /\ n \notin DOMAIN pin_states) =>
              /\ sent' = <<>>
              /\ ReportsFailure(calls')
              /\ pin_states' = pin_states
              /\ cacheVars' = cacheVars]_vars

\* The four sending methods of the controller.
SendMethods == {"send_camera_pose", "send_camera_params", "send_flying_mode", "send_lookatme"}

\* C18 (outbound sends never throw): each of send_camera_pose,
\* send_camera_params, send_flying_mode and send_lookatme returns False, raises
\* nothing and transmits no message when the client is unavailable;
\* send_camera_pose also returns False without transmitting when given fewer
\* than 6 values.
C18_SendsNeverThrow ==
    [][/\ (lastOp'.op \in SendMethods /\ ~client) =>
              /\ lastOp'.ret = "False"
              /\ sent' = <<>>
       /\ \A pose_data \in SendPoseInputs, fails \in SendFailInputs :
              (CallSendCameraPose(pose_data, fails) /\ Len(pose_data) < 6) =>
                  /\ lastOp'.ret = "False"
                  /\ sent' = <<>>
       /\ lastOp'.op \in SendMethods => lastOp'.ret \in {"True", "False"}]_vars
\* Without a client, send_camera_pose was given a pose of 6 values; it
\* returned False and transmitted nothing.
C18_Witness ==
    /\ ~client
    /\ lastOp.op = "send_camera_pose"
    /\ lastOp.ret = "False"
    /\ calls = << <<"send_camera_pose", 6, FALSE>> >>
    /\ sent = <<>>

\* The release of tracked key k is dispatched to the named action a.
DispatchesNamed(k, a) ==
    /\ lastOp'.op = "on_release" /\ lastOp'.vk = k
    /\ k \in pressed_keys /\ k \in DOMAIN key_press_times
    /\ k \notin DOMAIN vk_to_pin
    /\ k \in DOMAIN vk_to_special /\ vk_to_special[k] = a

\* C20 (copy_current): dispatching copy_current writes an encoding of the
\* cached camera state to the clipboard exactly when the cache holds a state
\* (the clipboard text then decodes to that state); when no state has been
\* received the clipboard is left unchanged and failure is reported.
C20_CopyCurrent ==
    [][\A k \in pressed_keys :
          DispatchesNamed(k, "copy_current") =>
              IF get_current_state # <<>>
              THEN /\ clipboard' # <<>>
                   /\ parse_clipboard_data(clipboard'[1]) = get_current_state
                   /\ calls' = << <<"copy_current_state_to_clipboard", 0, TRUE>> >>
              ELSE /\ clipboard' = clipboard
                   /\ calls' = << <<"copy_current_state_to_clipboard", 0, FALSE>> >>]_vars

\* What pyperclip.paste() returns.
ClipboardText == IF clipboard = <<>> THEN <<"">> ELSE clipboard[1]
\* The text is a JSON object of type vrchat_camera_state with position,
\* rotation and camera_params entries that are dictionaries of the fields of a
\* position, a rotation and camera parameters.
DecodesToCameraState(text) ==
    /\ text[1] = "json"
    /\ {"type", "position", "rotation", "camera_params"} \subseteq DOMAIN text[2]
    /\ text[2].type = "vrchat_camera_state"
    /\ Len(text[2].position) <= 3
    /\ Len(text[2].rotation) <= 3
    /\ DOMAIN text[2].camera_params \subseteq CameraParamFields
\* The messages that carry the state a text decodes to.
StateMessages(text) ==
    LET data == text[2] IN
    << <<"/usercamera/Pose", Fill3(data.position) \o Fill3(data.rotation)>>,
       <<"/usercamera/Zoom", FieldOr(data.camera_params, "zoom", 450)>>,
       <<"/usercamera/FocalDistance", FieldOr(data.camera_params, "focal_distance", 15)>>,
       <<"/usercamera/Aperture", FieldOr(data.camera_params, "aperture", 150)>>,
       <<"/usercamera/Exposure", FieldOr(data.camera_params, "exposure", 0)>> >>

C22_StartIdempotent ==
    [][(lastOp'.op = "start_monitoring" /\ is_monitoring) =>
          /\ lastOp'.ret = "True"
          /\ lastOp'.action # "listener_created"
          /\ UNCHANGED <<monVars, pressVars>>]_vars
\* start_monitoring returned from its already-running branch while a key was
\* tracked as pressed.
C22_Witness ==
    /\ lastOp.op = "start_monitoring"
    /\ lastOp.action = "already_running"
    /\ is_monitoring
    /\ pressed_keys # {}

\* C23 (inbound flags overwrite local flags): after a Flying message with
\* value v is processed, the local flight flag equals v and the look-at-me
\* flag is unchanged; a LookAtMe message sets only the look-at-me flag.
C23_InboundFlagsOverwrite ==
    [][\A v \in BOOLEAN :
          /\ handle_flying(<<Bool(v)>>) =>
                 /\ flight_mode_enabled' = v
                 /\ lookatme_enabled' = lookatme_enabled
          /\ handle_lookatme(<<Bool(v)>>) =>
                 /\ lookatme_enabled' = v
                 /\ flight_mode_enabled' = flight_mode_enabled]_vars
\* A Flying message carrying False was processed while look-at-me was on: the
\* flight flag is off and look-at-me still on.
C23_Witness ==
    /\ lastOp.op = "handle_flying"
    /\ "flying" \in DOMAIN current_params
    /\ current_params["flying"] = FALSE
    /\ flight_mode_enabled = FALSE
    /\ lookatme_enabled = TRUE

\* The data yields no slot binding, or no named-action binding.
YieldsNoBinding(data) ==
    \/ "key_bindings_vk" \notin DOMAIN data
    \/ IllTyped(data, "key_bindings_vk")
    \/ LoadPinItems(data.key_bindings_vk).kb = <<>>
    \/ "special_key_bindings_vk" \notin DOMAIN data
    \/ IllTyped(data, "special_key_bindings_vk")
    \/ LoadSpecialItems(data.special_key_bindings_vk).kb = <<>>
\* All 9 default slot keys and all 4 default named-action keys, with their
\* reverse maps.
DefaultTableInMemory ==
    /\ key_bindings = DefaultKeyBindings
    /\ vk_to_pin = Reverse(DefaultKeyBindings)
    /\ special_key_bindings = DefaultSpecialKeyBindings
    /\ vk_to_special = Reverse(DefaultSpecialKeyBindings)
\* load_config ran with this argument, on the living handler or as the last
\* statement of its construction.
LoadRan(config_data) ==
    \/ load_config(config_data)
    \/ config_data = <<>> /\ construct

\* C24 (load fallback): when the configuration file is absent or unreadable,
\* or the loaded data yields no slot binding or no named-action binding,
\* load_config leaves the complete default binding table in memory and
\* persists it.
C24_LoadFallback ==
    [][\A config_data \in LoadDataInputs :
          (/\ LoadRan(config_data)
           /\ IF ReadsNoFile(config_data) THEN TRUE
              ELSE YieldsNoBinding(DataRead(config_data))) =>
              /\ DefaultTableInMemory'
              /\ config_file' = <<InMemoryConfig'>>]_vars

\* C25 (uniqueness after load): after load_config of any configuration data,
\* including data in which a slot and a named action, or two slots, carry the
\* same key code, no key code is owned by two logical actions.
C25_UniquenessAfterLoad ==
    [][\A config_data \in LoadDataInputs :
          LoadRan(config_data) => C1_BindingUniqueness']_vars

\* C26 (threshold read at release): the release of a slot key is classified
\* against the threshold in effect at release time, also when the threshold
\* was changed between the press and the release: the store is dispatched
\* when release time minus press time is at least that value, the recall
\* otherwise.
C26_ThresholdAtRelease ==
    [][\A k \in pressed_keys \cap (DOMAIN key_press_times) :
          (/\ lastOp'.op = "on_release" /\ lastOp'.vk = k
           /\ Len(calls') = 1
           /\ calls'[1][1] \in {"save_current_state_to_pin", "load_pin_to_camera"}) =>
              (calls'[1][1] = "save_current_state_to_pin"
                  <=> now - key_press_times[k] >= long_press_threshold')]_vars
\* Key 97 went down at time 0 under the threshold 0.8 s, the slider was moved
\* to 0.4 s at time 1 (it cannot move earlier, and no key goes down later),
\* and the release at time 1 stored the pin: long under the new threshold,
\* short under the old one.
C26_Witness ==
    /\ lastOp.op = "on_release" /\ lastOp.vk = 97
    /\ now = 1
    /\ long_press_threshold = 1
    /\ calls = << <<"save_current_state_to_pin", 1, TRUE>> >>

\* A bind whose key has no code, whose slot number is outside 1..9, or whose
\* action name is not one of the four.
InvalidBind(op) ==
    \/ op.op = "set_key_binding" /\ (op.vk = None \/ op.pin \notin 1..9)
    \/ op.op = "set_special_key_binding"
          /\ (op.vk = None \/ op.action \notin ValidActionSet)

\* C27 (invalid bind is rejected without effect): a bind whose captured key
\* yields no key code, whose slot number is outside 1..9, or whose action name
\* is not one of the four named actions returns False and leaves the four
\* binding tables and the configuration file unchanged.
C27_InvalidBindRejected ==
    [][InvalidBind(lastOp') =>
          /\ lastOp'.ret = "False"
          /\ bindVars' = bindVars
          /\ config_file' = config_file]_vars
\* Slot 10 was offered key 65, which nobody owns: the bind returned False and
\* no slot 10 exists.
C27_Witness ==
    /\ lastOp.op = "set_key_binding"
    /\ lastOp.pin = 10 /\ lastOp.vk = 65
    /\ lastOp.ret = "False"
    /\ ~DictHas(key_bindings, 10)
    /\ 65 \notin DOMAIN vk_to_pin \cup DOMAIN vk_to_special

\* The release being handled met a failing collaborator: the handler's own
\* call raised, or the client's send_message raised under a send.
FaultedRelease(k) ==
    /\ lastOp'.op = "on_release" /\ lastOp'.vk = k
    /\ \/ Len(calls') = 1 /\ Len(calls'[1]) = 4
       \/ Len(calls') = 1 /\ calls'[1][1] = "load_pin_to_camera" /\ calls'[1][3] = FALSE
             /\ k \in DOMAIN vk_to_pin /\ vk_to_pin[k] \in DOMAIN pin_states

\* C28 (listener faults are contained): when a collaborator raises while the
\* release of a tracked key is handled, the callback still returns, and the
\* key is tracked neither as pressed nor with a press time; the press callback
\* of a key that is not tracked records it with the current time; and the
\* release of a tracked key is classified by the time since that record (the
\* reverse lookup choosing the slot), so that the pair after a fault is
\* dispatched as any other.
C28_ListenerFaultsContained ==
    [][/\ \A k \in pressed_keys \cap (DOMAIN key_press_times) :
             FaultedRelease(k) =>
                 /\ lastOp'.ret = "None"
                 /\ k \notin pressed_keys'
                 /\ k \notin DOMAIN key_press_times'
       /\ \A k \in 0..255 :
             (k \notin pressed_keys /\ lastOp'.op = "on_press" /\ lastOp'.vk = k) =>
                 /\ k \in pressed_keys'
                 /\ k \in DOMAIN key_press_times'
                 /\ key_press_times'[k] = now
       /\ \A k \in pressed_keys \cap (DOMAIN key_press_times) \cap (DOMAIN vk_to_pin) :
             (lastOp'.op = "on_release" /\ lastOp'.vk = k) =>
                 /\ Len(calls') = 1
                 /\ calls'[1][2] = vk_to_pin[k]
                 /\ calls'[1][1] = IF now - key_press_times[k] >= long_press_threshold
                                   THEN "save_current_state_to_pin"
                                   ELSE "load_pin_to_camera"]_vars
\* The store dispatched by the long release of key 97 raised; the callback
\* returned and key 97 is not tracked.
C28_Witness ==
    /\ lastOp.op = "on_release" /\ lastOp.vk = 97 /\ lastOp.ret = "None"
    /\ calls = << <<"save_current_state_to_pin", 1, FALSE, "raised">> >>
    /\ 97 \notin pressed_keys
    /\ 97 \notin DOMAIN key_press_times

\* A step on which toggle_flight runs with the client present and every
\* send_message call succeeding: from the button, or from the release of a
\* tracked key that resolves to toggle_flight.
SuccessfulFlightToggle ==
    /\ client
    /\ ToggleInvoked("toggle_flight")
    /\ \/ ToggleFlightButton({})
       \/ \E key \in {KeyObj(111), KeyObj(106)} : on_release(key, {})
\* The operation before this step was a toggle_flight that sent its message.
AfterSentFlightToggle ==
    /\ client
    /\ lastOp.op \in {"toggle_flight_mode", "on_release"}
    /\ Len(sent) = 1
    /\ sent[1][1] = "/usercamera/Flying"

\* C29 (successful toggle): with the client available and the send
\* succeeding, toggle_flight flips flight_mode_enabled, sends exactly one
\* /usercamera/Flying message carrying the new value and writes the new value
\* to the configuration file; when the operation just before was itself a
\* toggle_flight that sent not-v, this one sends v and the flag is v again.
C29_SuccessfulToggle ==
    [][SuccessfulFlightToggle =>
          /\ flight_mode_enabled' = ~flight_mode_enabled
          /\ lookatme_enabled' = lookatme_enabled
          /\ sent' = << <<"/usercamera/Flying", flight_mode_enabled'>> >>
          /\ config_file' # <<>>
          /\ config_file'[1].flight_mode_enabled = flight_mode_enabled'
          /\ AfterSentFlightToggle =>
                 /\ sent'[1][2] = ~sent[1][2]
                 /\ flight_mode_enabled' = ~sent[1][2]]_vars
\* The flight toggle has just sent False, and the flag and the file say
\* False: the flag had been flipped to True before.
C29_Witness ==
    /\ client
    /\ lastOp.op = "toggle_flight_mode"
    /\ sent = << <<"/usercamera/Flying", FALSE>> >>
    /\ ~flight_mode_enabled
    /\ config_file # <<>>
    /\ ~config_file[1].flight_mode_enabled

\* C30 (stop racing a press): under every interleaving of the listener
\* thread's callbacks with stop_monitoring, from the return of stop_monitoring
\* to the next start_monitoring no key is tracked as pressed, so that no
\* press from before the stop is there for a release after the restart to
\* complete.
C30_StopRacingPress ==
    ~is_monitoring => (pressed_keys = {} /\ DOMAIN key_press_times = {})

\* v brought into the closed range lo..hi.
Within(lo, hi, v) == IF v < lo THEN lo ELSE IF v > hi THEN hi ELSE v
\* The release of the tracked key k is a long press that the reverse lookup
\* resolves to slot n.
LongPressOfSlot(k, n) ==
    /\ lastOp'.op = "on_release" /\ lastOp'.vk = k
    /\ k \in pressed_keys \cap (DOMAIN key_press_times) \cap (DOMAIN vk_to_pin)
    /\ vk_to_pin[k] = n
    /\ now - key_press_times[k] >= long_press_threshold

\* C31 (long-press stores the snapshot): when the cache holds a state S, a
\* long-press of Slot(n) makes pin n equal to S's pose together with S's
\* parameters, each brought into its range (zoom 20..150, focal distance
\* 0..10, aperture 1.4..32, exposure -10..4; in tenths here), and leaves every
\* other slot's pin as it was.
C31_LongPressStores ==
    [][\A k \in pressed_keys, n \in Slots :
          (LongPressOfSlot(k, n) /\ Len(current_pose) >= 6) =>
              /\ n \in DOMAIN pin_states'
              /\ pin_states'[n].position = SubSeq(current_pose, 1, 3)
              /\ pin_states'[n].rotation = SubSeq(current_pose, 4, 6)
              /\ pin_states'[n].camera_params =
                    [zoom |-> Within(200, 1500, ParamGet("zoom", 450)),
                     focal_distance |-> Within(0, 100, ParamGet("focal_distance", 15)),
                     aperture |-> Within(14, 320, ParamGet("aperture", 150)),
                     exposure |-> Within(-100, 40, ParamGet("exposure", 0))]
              /\ \A m \in Slots \ {n} :
                    /\ m \in DOMAIN pin_states' <=> m \in DOMAIN pin_states
                    /\ m \in DOMAIN pin_states => pin_states'[m] = pin_states[m]]_vars
\* Slot 1 holds the second pose with the zoom 200 cut to 150 and the aperture
\* 0.5 raised to 1.4, slot 2 holds another pin, and the store has just run.
C31_Witness ==
    /\ lastOp.op = "on_release" /\ lastOp.vk = 97
    /\ calls = << <<"save_current_state_to_pin", 1, TRUE>> >>
    /\ 1 \in DOMAIN pin_states /\ 2 \in DOMAIN pin_states
    /\ pin_states[1].position = <<4, 5, 6>>
    /\ pin_states[1].camera_params.zoom = 1500
    /\ pin_states[1].camera_params.aperture = 14
    /\ pin_states[2].position = <<1, 2, 3>>

\* The four parameters of the cache, as a read would return them.
CachedParams(params) ==
    [zoom |-> ReadParam(params, "zoom", 450),
     focal_distance |-> ReadParam(params, "focal_distance", 15),
     aperture |-> ReadParam(params, "aperture", 150),
     exposure |-> ReadParam(params, "exposure", 0)]
\* The step is the well-formed message args for the parameter key: that
\* parameter takes the value received, the other three, the pose and both
\* flags stay.
ParamOnlyUpdated(key, args) ==
    (Len(args) > 0 /\ float(args[1]).ok) =>
        /\ CachedParams(current_params') =
              [CachedParams(current_params) EXCEPT ![key] = float(args[1]).value]
        /\ DOMAIN current_params' = DOMAIN current_params \cup {key}
        /\ UNCHANGED <<current_pose, flagVars>>

\* C32 (per-field telemetry updates): a well-formed pose message changes the
\* cached pose only, and a well-formed zoom, focal distance, aperture or
\* exposure message changes that parameter only; the other four fields and
\* both flags stay as they were.
C32_PerFieldUpdates ==
    [][/\ \A args \in CachePoseInputs :
             (handle_pose(args) /\ Len(args) >= 6) =>
                 /\ current_pose' = SubSeq(args, 1, 6)
                 /\ UNCHANGED <<current_params, flagVars>>
       /\ \A args \in ZoomInputs : handle_zoom(args) => ParamOnlyUpdated("zoom", args)
       /\ \A args \in ParamInputs :
             /\ handle_focal_distance(args) => ParamOnlyUpdated("focal_distance", args)
             /\ handle_aperture(args) => ParamOnlyUpdated("aperture", args)
             /\ handle_exposure(args) => ParamOnlyUpdated("exposure", args)]_vars
\* An aperture of 2.0 has just been processed; the pose and the zoom received
\* before are still there.
C32_Witness ==
    /\ lastOp.op = "handle_aperture"
    /\ DOMAIN current_params = {"zoom", "aperture"}
    /\ current_params["aperture"] = 20
    /\ current_params["zoom"] = 300
    /\ current_pose = <<4, 5, 6, 10, 0, 0>>

\* C33 (toggle racing telemetry): under every interleaving of a toggle with an
\* inbound flag message or with a second toggle, a toggle that sends a
\* message sends the negation of the flag value held when it began, and when
\* it returns the local flag equals the value it sent.
C33_ToggleRacingTelemetry ==
    [][\A thread \in {"listener", "gui"} :
          /\ (lastOp'.op = "toggle_send" /\ lastOp'.action = thread /\ Len(sent') = 1) =>
                 sent'[1][2] = ~Locals(thread).began
          /\ (lastOp'.op = "toggle_return" /\ lastOp'.action = thread) =>
                 flight_mode_enabled' = Locals(thread).value]_vars


\* The reverse map holds exactly the pairs of the forward map, turned round.
IsInverseOf(reverse, forward) ==
    /\ DOMAIN reverse = {forward[i][2] : i \in 1..Len(forward)}
    /\ \A i \in 1..Len(forward) : reverse[forward[i][2]] = forward[i][1]

\* C34 (forward and reverse maps stay inverse): after every bind, unbind,
\* reset and load, vk_to_pin is exactly the inverse of key_bindings and
\* vk_to_special exactly the inverse of special_key_bindings.
C34_MapsStayInverse ==
    /\ IsInverseOf(vk_to_pin, key_bindings)
    /\ IsInverseOf(vk_to_special, special_key_bindings)


\* The five messages of a recall of the stored state, in the order of the
\* calls load_pin_to_camera makes.
RecallMessages(state) ==
    << <<"/usercamera/Pose", to_pose_list(state)>>,
       <<"/usercamera/Zoom", state.camera_params.zoom>>,
       <<"/usercamera/FocalDistance", state.camera_params.focal_distance>>,
       <<"/usercamera/Aperture", state.camera_params.aperture>>,
       <<"/usercamera/Exposure", state.camera_params.exposure>> >>
\* log is what remains of full when some of its messages are left out: the
\* messages of log are messages of full, in the order they have in full.
InOrderOf(log, full) ==
    \E at \in [1..Len(log) -> 1..Len(full)] :
        /\ \A i \in 1..Len(log) : log[i] = full[at[i]]
        /\ \A i \in 1..Len(log), j \in 1..Len(log) : i < j => at[i] < at[j]
\* The release of the tracked key k is a short press that the reverse lookup
\* resolves to slot n, and slot n holds a pin.
ShortPressRecall(k, n) ==
    /\ lastOp'.op = "on_release" /\ lastOp'.vk = k
    /\ k \in pressed_keys \cap (DOMAIN key_press_times) \cap (DOMAIN vk_to_pin)
    /\ vk_to_pin[k] = n
    /\ now - key_press_times[k] < long_press_threshold
    /\ n \in DOMAIN pin_states

\* C35 (recall message order and result): a short-press recall of a stored
\* pin transmits its messages in the order Pose, Zoom, FocalDistance,
\* Aperture, Exposure, each with the stored value; when the pose send raised
\* and no parameter send does, the four parameter messages still go out; and
\* load_pin_to_camera returns True if and only if all five were sent.
C35_RecallOrderAndResult ==
    [][\A k \in pressed_keys, n \in Slots :
          ShortPressRecall(k, n) =>
              /\ InOrderOf(sent', RecallMessages(pin_states[n]))
              /\ \A fails \in SUBSET (1..5) :
                    (on_release(KeyObj(k), fails) /\ 1 \in fails /\ fails \cap (2..5) = {}) =>
                        sent' = SubSeq(RecallMessages(pin_states[n]), 2, 5)
              /\ \E ret \in BOOLEAN :
                    /\ calls' = << <<"load_pin_to_camera", n, ret>> >>
                    /\ ret <=> sent' = RecallMessages(pin_states[n])]_vars
\* A recall of slot 1 whose pose send raised: the four parameter messages
\* went out, Zoom first, and the recall reported failure.
C35_Witness ==
    /\ lastOp.op = "on_release" /\ lastOp.vk = 97
    /\ calls = << <<"load_pin_to_camera", 1, FALSE>> >>
    /\ Len(sent) = 4
    /\ sent[1][1] = "/usercamera/Zoom" /\ sent[4][1] = "/usercamera/Exposure"


\* The step ran the named action a once and no other action: its one
\* pin-system call, or its one flag flipped and sent (the OSC client exists
\* and works).
RanNamedOnce(a) ==
    IF a = "copy_current"
    THEN Len(calls') = 1 /\ calls'[1][1] = "copy_current_state_to_clipboard" /\ sent' = <<>>
    ELSE IF a = "move_clipboard"
    THEN Len(calls') = 1 /\ calls'[1][1] = "load_from_clipboard_data"
    ELSE IF a = "toggle_flight"
    THEN /\ calls' = <<>> /\ sent' = << <<"/usercamera/Flying", ~flight_mode_enabled>> >>
         /\ flight_mode_enabled' = ~flight_mode_enabled /\ UNCHANGED lookatme_enabled
    ELSE /\ calls' = <<>> /\ sent' = << <<"/usercamera/LookAtMe", ~lookatme_enabled>> >>
         /\ lookatme_enabled' = ~lookatme_enabled /\ UNCHANGED flight_mode_enabled

\* The release of a tracked key that the reverse lookup resolves to the named
\* action a runs a once, whatever the hold time.
NamedDispatchIgnoresDuration ==
    [][\A k \in pressed_keys, a \in ValidActionSet :
          DispatchesNamed(k, a) => RanNamedOnce(a)]_vars

\* C36 (named actions ignore press duration): for a key bound to a named
\* action in the binding table, a press followed by a release dispatches that
\* action exactly once, whether the key was held for less than the long-press
\* threshold or for at least it.
C36_NamedIgnoreDuration ==
    [][\A k \in pressed_keys \cap (DOMAIN key_press_times), a \in ValidActionSet :
          (/\ DictHas(special_key_bindings, a)
           /\ DictGet(special_key_bindings, a) = k
           /\ lastOp'.op = "on_release"
           /\ lastOp'.vk = k) => RanNamedOnce(a)]_vars


\* The step dispatched no action.
NothingDispatched ==
    /\ calls' = <<>> /\ sent' = <<>>
    /\ UNCHANGED <<flagVars, pin_states, clipboard, config_file>>
\* The step ran slot n's store or recall, and no other action.
RanSlotOnce(n) ==
    /\ Len(calls') = 1 /\ calls'[1][2] = n
    /\ calls'[1][1] \in {"save_current_state_to_pin", "load_pin_to_camera"}
\* The step ran the logical action a.
RanAction(a) == IF a[1] = "slot" THEN RanSlotOnce(a[2]) ELSE RanNamedOnce(a[2])

\* C37 (binding resolved at release time): the release of a tracked key k
\* takes k out of the tracker and dispatches what the lookup tables hold for
\* k at that moment: the slot of vk_to_pin, else the named action of
\* vk_to_special, else nothing.  A key that no action of the binding table
\* holds any more dispatches nothing, and a key that was bound to an action
\* by the operation just before its release dispatches that action.
C37_BindingAtRelease ==
    [][\A k \in pressed_keys \cap (DOMAIN key_press_times) :
          (lastOp'.op = "on_release" /\ lastOp'.vk = k) =>
              /\ k \notin pressed_keys' /\ k \notin DOMAIN key_press_times'
              /\ RanAction(Resolve(vk_to_pin, vk_to_special, k))
                    \/ (Resolve(vk_to_pin, vk_to_special, k)[1] = "none" /\ NothingDispatched)
              /\ (\A a \in BoundActions : KeyOf(a) # k) => NothingDispatched
              /\ (IsBind(lastOp) /\ lastOp.ret = "True" /\ lastOp.vk = k) =>
                    RanAction(BindTarget(lastOp))]_vars
\* Key 97, which went down as slot 1's key, was released after slot 1 was
\* unbound and the key given to toggle_flight: the flag message went out and
\* no pin call was made.
C37_Witness ==
    /\ lastOp.op = "on_release" /\ lastOp.vk = 97
    /\ 97 \in DOMAIN vk_to_special /\ vk_to_special[97] = "toggle_flight"
    /\ 97 \notin DOMAIN vk_to_pin
    /\ calls = <<>>
    /\ Len(sent) = 1 /\ sent[1][1] = "/usercamera/Flying"


\* The number of actions whose effects the step shows: pin-system calls made
\* and flags flipped.
ActionsShown ==
    Len(calls') + (IF flight_mode_enabled' # flight_mode_enabled THEN 1 ELSE 0)
                + (IF lookatme_enabled' # lookatme_enabled THEN 1 ELSE 0)

\* C38 (at most one action per release): a release event dispatches at most
\* one action; the release of a tracked key that is in both vk_to_pin and
\* vk_to_special runs the slot's store or recall only: no call of the named
\* action is made, no flag flips and the clipboard stays as it was.
C38_AtMostOneAction ==
    [][lastOp'.op = "on_release" =>
          /\ ActionsShown <= 1
          /\ \A k \in pressed_keys \cap (DOMAIN key_press_times) :
                (lastOp'.vk = k /\ k \in DOMAIN vk_to_pin /\ k \in DOMAIN vk_to_special) =>
                    /\ RanSlotOnce(vk_to_pin[k])
                    /\ UNCHANGED <<flagVars, clipboard>>]_vars
\* Key 97 stood under slot 2 and under copy_current when it was released:
\* the one call made is slot 2's recall.
C38_Witness ==
    /\ lastOp.op = "on_release" /\ lastOp.vk = 97
    /\ 97 \in DOMAIN vk_to_pin /\ vk_to_pin[97] = 2
    /\ 97 \in DOMAIN vk_to_special /\ vk_to_special[97] = "copy_current"
    /\ calls = << <<"load_pin_to_camera", 2, FALSE>> >>


\* C39 (pin store invariant): after any sequence of save_pin_state,
\* delete_pin_state and load_data every stored pin has a slot number in 1..9
\* and parameters within range (zoom 20..150, focal distance 0..10, aperture
\* 1.4..32, exposure -10..4; in tenths here); save_pin_state with a slot
\* outside 1..9 returns False and changes nothing.
C39_PinStoreInvariant ==
    /\ [](\A n \in DOMAIN pin_states :
            /\ n \in 1..9
            /\ pin_states[n].camera_params.zoom \in 200..1500
            /\ pin_states[n].camera_params.focal_distance \in 0..100
            /\ pin_states[n].camera_params.aperture \in 14..320
            /\ pin_states[n].camera_params.exposure \in -100..40)
    /\ [][(lastOp'.op = "save_pin_state" /\ lastOp'.pin \notin 1..9) =>
              (lastOp'.ret = "False" /\ UNCHANGED pin_states)]_vars
\* save_pin_state(10, ...) has just been refused while the store holds pin 2
\* read from the file (exposure 5 cut to 4, zoom 10 raised to 20), pin 4 read
\* from the other file (aperture 50 cut to 32) and pin 9 saved with a zoom
\* of 200 cut to 150.
C39_Witness ==
    /\ lastOp.op = "save_pin_state" /\ lastOp.pin = 10 /\ lastOp.ret = "False"
    /\ DOMAIN pin_states = {2, 4, 9}
    /\ pin_states[2].camera_params.exposure = 40
    /\ pin_states[2].camera_params.zoom = 200
    /\ pin_states[4].camera_params.aperture = 320
    /\ pin_states[9].camera_params.zoom = 1500


\* The step is a pose message of at least six values.
WellFormedPoseReceived == \E args \in CachePoseInputs : Len(args) >= 6 /\ handle_pose(args)
\* The defaults of CameraParams (in tenths).
DefaultOf(field) ==
    IF field = "zoom" THEN 450
    ELSE IF field = "focal_distance" THEN 15
    ELSE IF field = "aperture" THEN 150
    ELSE 0

\* C40 (cache is empty until a pose arrives): get_current_state returns None
\* after construction and keeps returning None over every step that is not a
\* well-formed pose message, whatever parameter and flag messages arrive;
\* once a pose is held it returns a state in which every parameter that was
\* never received has its default (zoom 45, focal distance 1.5, aperture 15,
\* exposure 0).
C40_EmptyUntilPose ==
    /\ get_current_state = <<>>
    /\ [][(get_current_state = <<>> /\ ~WellFormedPoseReceived) =>
              get_current_state' = <<>>]_vars
    /\ [][WellFormedPoseReceived => get_current_state' # <<>>]_vars
    /\ [](get_current_state # <<>> =>
            \A field \in {"zoom", "focal_distance", "aperture", "exposure"} :
                field \notin DOMAIN current_params =>
                    get_current_state[1].camera_params[field] = DefaultOf(field))
\* The second pose arrived after a zoom message and both flag messages, and
\* no other parameter was received: the state read has the pose, the zoom
\* received and three defaults.
C40_Witness ==
    /\ lastOp.op = "handle_pose"
    /\ current_pose = <<4, 5, 6, 10, 0, 0>>
    /\ DOMAIN current_params = {"zoom", "flying", "lookatme"}
    /\ get_current_state # <<>>
    /\ get_current_state[1].camera_params.zoom = 2000
    /\ get_current_state[1].camera_params.aperture = 150

====
